---- MODULE Spec2Model ----
(***************************************************************************)
(* Model of the gw-broadcaster relay/admission server (server/index.ts):   *)
(* session tokens, origin allow-listing, connection quotas, snapshot       *)
(* fan-out and heartbeat.  Every handler of the server is one action; the  *)
(* event loop runs each handler to completion, so actions are atomic.      *)
(* Upgrade requests are well-formed WebSocket handshakes, so that          *)
(* wss.handleUpgrade completes and emits 'connection' synchronously.       *)
(* Token values are fresh: randomBytes(24) never repeats a value.          *)
(***************************************************************************)
EXTENDS Integers, Sequences, FiniteSets, TLC

\* ------------------------------------------------------------------------
\* Bounds of the model
\* ------------------------------------------------------------------------
MaxTicks == 1
MaxSent == 3
\* Spec: tokens issued, sockets upgraded
MaxTokens == 1
MaxJoins == 1
\* SpecQuota: tokens issued, sockets upgraded
MaxTokensQ == 2
MaxJoinsQ == 2
\* SpecBroadcast: tokens issued, sockets upgraded
MaxTokensB == 1
MaxJoinsB == 2

\* Date.now() advances in steps of TickMs milliseconds.
TickMs == 5000

\* ------------------------------------------------------------------------
\* Input domains
\* ------------------------------------------------------------------------
Ips == {"10.0.0.1", "10.0.0.2"}

\* `undefined` (header absent / searchParams.get() === null / Map miss)
Undefined == "<undefined>"

ViewerOrigin == "https://viewer.example.com"
ViewerOtherPort == "https://viewer.example.com:8443"
EvilOrigin == "https://evil.example.com"
MalformedOrigin == "not a url"

OriginHeaders == {Undefined, ViewerOrigin, EvilOrigin}
HostHeaders == {Undefined, "viewer.example.com:443", "evil.example.com"}

\* req.url of an upgrade request: a URL that new URL() rejects, or a URL
\* whose sessionToken parameter is absent/empty, a value nobody was issued,
\* or an issued token (tokens are 1, 2, ... in order of issue).
BadUrl == -2
NoToken == -1
BogusToken == 0

\* Content of the state file at a poll: the file is missing, is not JSON, has
\* the wrong shape, or is a valid payload with a timestamp and a body.
FileContents ==
  { [kind |-> "missing", timestamp |-> 0, body |-> ""],
    [kind |-> "garbage", timestamp |-> 0, body |-> ""],
    [kind |-> "bad-shape", timestamp |-> 100, body |-> "a"],
    [kind |-> "valid", timestamp |-> 0, body |-> "a"],
    [kind |-> "valid", timestamp |-> 100, body |-> "a"],
    [kind |-> "valid", timestamp |-> 100, body |-> "b"] }

\* The file contents the specifications poll: an unreadable file and one valid payload.
AdmissionFileContents ==
  { [kind |-> "garbage", timestamp |-> 0, body |-> ""],
    [kind |-> "valid", timestamp |-> 100, body |-> "a"] }

\* lastState before any poll: JSON of {type:'state', timestamp: Date.now(),
\* mapDimensions, instances: []}
DefaultState == [kind |-> "valid", timestamp |-> 0, body |-> "default"]

\* JSON.stringify(welcome)
WelcomeMsg == [kind |-> "welcome", timestamp |-> 0, body |-> "welcome"]

\* ------------------------------------------------------------------------
\* Configuration (server.config.json); read once, never changed
\* ------------------------------------------------------------------------
ConfigSet ==
  { [allowedOrigins |-> <<>>, allowSameHostDifferentPort |-> FALSE,
     maxConnectionsPerIp |-> 1, maxTotalConnections |-> 2,
     idleTimeoutMs |-> 5000, hasTtl |-> TRUE, sessionTokenTtlMs |-> 2000],
    [allowedOrigins |-> <<MalformedOrigin, ViewerOrigin>>, allowSameHostDifferentPort |-> TRUE,
     maxConnectionsPerIp |-> 2, maxTotalConnections |-> 2,
     idleTimeoutMs |-> 2500, hasTtl |-> TRUE, sessionTokenTtlMs |-> 10000] }

VARIABLES
  config,              \* ServerConfig
  now,                 \* Date.now()
  sessionTokens,       \* Map<string, SessionTokenState>
  nextToken,           \* number of tokens issued so far (token values are fresh)
  issued,              \* history: every token ever issued, with its binding
  clients,             \* Map<WebSocket, ClientConnection>: keys in insertion order
  conn,                \* ClientConnection of each registered socket
  readyState,          \* ws.readyState of each socket whose close is not yet processed
  ipConnectionCounts,  \* Map<string, number>
  nextConn,            \* number of sockets upgraded so far (= successful joins)
  closes,              \* history: number of close handlers run
  lastState,           \* held snapshot (serialized)
  lastTimestamp,       \* last broadcast timestamp
  sent,                \* messages sent to each registered socket, in order
  last,                \* the response of the handler that ran last, when it was a request
  listening,           \* sockets whose 'pong', 'close', 'message' and 'error' listeners are attached
  \* the viewer page's useWebSocket hook
  mounted,             \* the effect that connects on mount is active (its cleanup has not run)
  connectTimer,        \* the effect's setTimeout(..., 0) is pending
  wsRef,               \* wsRef.current: a socket, or 0 for null
  reconnectTimeoutRef, \* reconnectTimeoutRef.current: a timer id, or 0 for null
  tokenRequestAbortRef,\* tokenRequestAbortRef.current: the controller of a fetch, or 0 for null
  timers,              \* pending reconnect timers (setTimeout ids)
  fetches,             \* session-token requests not yet settled: "pending" or "aborted"
  sockets,             \* readyState of each WebSocket the hook created, until its close event
  created,             \* number of timers, fetches and sockets created so far
  isConnected,         \* state.isConnected
  superseded           \* history: the sockets that were OPEN when connect() or a cleanup before
                       \* a re-run of the effect closed them, and the timers their close set

serverVars == <<config, now, sessionTokens, nextToken, issued, clients, conn, readyState,
          ipConnectionCounts, nextConn, closes, lastState, lastTimestamp, sent, last, listening>>

clientVars == <<mounted, connectTimer, wsRef, reconnectTimeoutRef, tokenRequestAbortRef,
                timers, fetches, sockets, created, isConnected, superseded>>

vars == <<serverVars, clientVars>>

\* The hook after the first render: the connect-on-mount effect has run and
\* its timer is pending; the refs hold their initial values.
ClientInit ==
  /\ mounted = TRUE
  /\ connectTimer = TRUE
  /\ wsRef = 0
  /\ reconnectTimeoutRef = 0
  /\ tokenRequestAbortRef = 0
  /\ timers = {}
  /\ fetches = [x \in {} |-> ""]
  /\ sockets = [x \in {} |-> ""]
  /\ created = [timer |-> 0, fetch |-> 0, socket |-> 0]
  /\ isConnected = FALSE
  /\ superseded = [sockets |-> {}, timers |-> {}]

\* ------------------------------------------------------------------------
\* Helpers
\* ------------------------------------------------------------------------
Max(a, b) == IF a >= b THEN a ELSE b
Min(a, b) == IF a <= b THEN a ELSE b

Range(s) == {s[i] : i \in 1..Len(s)}

\* Map.delete on an insertion-ordered key list
SeqRemove(s, x) == SelectSeq(s, LAMBDA y : y # x)

\* Map.delete / Map.set on a function with a finite domain
MapDelete(m, k) == [x \in DOMAIN m \ {k} |-> m[x]]
MapSet(m, k, v) == [x \in DOMAIN m \cup {k} |-> IF x = k THEN v ELSE m[x]]

Truthy_definedOnly(s) == s # Undefined

\* JavaScript truthiness of `string | undefined`
Truthy(s) == s # Undefined /\ s # ""

\* new URL(s) succeeds exactly on these strings of the input domains
ParsableURLs ==
  {ViewerOrigin, ViewerOtherPort, EvilOrigin, "http://viewer.example.com:443",
   "http://viewer.example.com", "http://evil.example.com"}

CanParse(s) == s \in ParsableURLs

\* new URL(s): protocol / hostname / port of a parsable string
ParseURL(s) ==
  CASE s = ViewerOrigin    -> [protocol |-> "https:", hostname |-> "viewer.example.com", port |-> ""]
    [] s = ViewerOtherPort -> [protocol |-> "https:", hostname |-> "viewer.example.com", port |-> "8443"]
    [] s = EvilOrigin      -> [protocol |-> "https:", hostname |-> "evil.example.com", port |-> ""]
    [] s = "http://evil.example.com"
         -> [protocol |-> "http:", hostname |-> "evil.example.com", port |-> ""]
    [] s = "http://viewer.example.com:443"
         -> [protocol |-> "http:", hostname |-> "viewer.example.com", port |-> "443"]
    [] s = "http://viewer.example.com"
         -> [protocol |-> "http:", hostname |-> "viewer.example.com", port |-> ""]

\* const sessionTokenTtlMs = Math.max(5000, config.sessionTokenTtlMs ?? 30_000)
TtlFloorMs == 5000
TtlDefaultMs == 30000
sessionTokenTtlMs_unclamped ==
  IF config.hasTtl THEN config.sessionTokenTtlMs ELSE TtlDefaultMs

sessionTokenTtlMs ==
  Max(TtlFloorMs, IF config.hasTtl THEN config.sessionTokenTtlMs ELSE TtlDefaultMs)

\* ------------------------------------------------------------------------
\* Origin / host allow-listing
\* ------------------------------------------------------------------------
isOriginAllowed_hostOnly(originHeader) ==
  IF Len(config.allowedOrigins) = 0 THEN TRUE
  ELSE IF ~Truthy(originHeader) THEN FALSE
  ELSE IF originHeader \in Range(config.allowedOrigins) THEN TRUE
  ELSE IF ~config.allowSameHostDifferentPort THEN FALSE
  ELSE IF ~CanParse(originHeader) THEN FALSE
  ELSE \E i \in 1..Len(config.allowedOrigins) :
         /\ CanParse(config.allowedOrigins[i])
         /\ ParseURL(config.allowedOrigins[i]).hostname = ParseURL(originHeader).hostname

isOriginAllowed(originHeader) ==
  IF Len(config.allowedOrigins) = 0 THEN TRUE
  ELSE IF ~Truthy(originHeader) THEN FALSE
  ELSE IF originHeader \in Range(config.allowedOrigins) THEN TRUE
  ELSE IF ~config.allowSameHostDifferentPort THEN FALSE
  ELSE IF ~CanParse(originHeader) THEN FALSE
  ELSE \E i \in 1..Len(config.allowedOrigins) :
         /\ CanParse(config.allowedOrigins[i])
         /\ ParseURL(config.allowedOrigins[i]).protocol = ParseURL(originHeader).protocol
         /\ ParseURL(config.allowedOrigins[i]).hostname = ParseURL(originHeader).hostname

\* new URL(`http://${value}`).hostname.toLowerCase(), or Undefined
extractHostname(value) ==
  IF CanParse("http://" \o value) THEN ParseURL("http://" \o value).hostname ELSE Undefined

isHostAllowed(hostHeader) ==
  IF Len(config.allowedOrigins) = 0 THEN TRUE
  ELSE IF ~Truthy(hostHeader) THEN FALSE
  ELSE IF extractHostname(hostHeader) = Undefined THEN FALSE
  ELSE \E i \in 1..Len(config.allowedOrigins) :
         /\ CanParse(config.allowedOrigins[i])
         /\ ParseURL(config.allowedOrigins[i]).hostname = extractHostname(hostHeader)

isSessionRequestAllowed_hostFallback(hostHeader, originHeader) ==
  isOriginAllowed(originHeader) \/ isHostAllowed(hostHeader)

isSessionRequestAllowed(hostHeader, originHeader) ==
  IF isOriginAllowed(originHeader) THEN TRUE
  ELSE IF ~Truthy(originHeader) THEN isHostAllowed(hostHeader)
  ELSE FALSE

\* ------------------------------------------------------------------------
\* Token store
\* ------------------------------------------------------------------------
TokenExpired_strict(session, t) == session.expiresAt < t

\* session.expiresAt <= Date.now()
TokenExpired(session, t) == session.expiresAt <= t

cleanExpiredSessionTokens_keepAll(tokens, t) == tokens

\* for (const [token, value] of sessionTokens) if (value.expiresAt <= now) delete
cleanExpiredSessionTokens(tokens, t) ==
  [k \in {x \in DOMAIN tokens : ~TokenExpired(tokens[x], t)} |-> tokens[k]]

\* ------------------------------------------------------------------------
\* Upgrade handshake: httpServer.on('upgrade')
\* ------------------------------------------------------------------------
CountOf_absent(counts, ip) == 0

\* ipConnectionCounts.get(ip) ?? 0
CountOf(counts, ip) == IF ip \in DOMAIN counts THEN counts[ip] ELSE 0

GlobalCapacityReached_strict(size) == size > config.maxTotalConnections

\* clients.size >= config.maxTotalConnections
GlobalCapacityReached(size) == size >= config.maxTotalConnections

IpCapacityReached_strict(currentCount) == currentCount > config.maxConnectionsPerIp

\* currentCount >= config.maxConnectionsPerIp
IpCapacityReached(currentCount) == currentCount >= config.maxConnectionsPerIp

IpMismatch_unchecked(session, ip) == FALSE

\* session.ip !== ip
IpMismatch(session, ip) == session.ip # ip

OriginMismatch_strict(session, originHeader) == session.origin # originHeader

\* session.origin && originHeader && session.origin !== originHeader
OriginMismatch(session, originHeader) ==
  Truthy(session.origin) /\ Truthy(originHeader) /\ session.origin # originHeader

ValidateToken_ipBeforeExpiry(tok, ip, originHeader) ==
  IF tok = NoToken THEN "missing"
  ELSE IF tok \notin DOMAIN sessionTokens THEN "invalid"
  ELSE IF IpMismatch(sessionTokens[tok], ip) THEN "ip-mismatch"
  ELSE IF TokenExpired(sessionTokens[tok], now) THEN "expired"
  ELSE IF OriginMismatch(sessionTokens[tok], originHeader) THEN "origin-mismatch"
  ELSE "ok"

\* The token checks, in the order of the handler.
ValidateToken(tok, ip, originHeader) ==
  IF tok = NoToken THEN "missing"
  ELSE IF tok \notin DOMAIN sessionTokens THEN "invalid"
  ELSE IF TokenExpired(sessionTokens[tok], now) THEN "expired"
  ELSE IF IpMismatch(sessionTokens[tok], ip) THEN "ip-mismatch"
  ELSE IF OriginMismatch(sessionTokens[tok], originHeader) THEN "origin-mismatch"
  ELSE "ok"

\* requestUrl.searchParams.get('sessionToken') of a URL that parsed
SessionTokenParam(url) == url

UpgradeReason_perIpFirst(ip, originHeader, url) ==
  IF ~isOriginAllowed(originHeader) THEN "origin"
  ELSE IF IpCapacityReached(CountOf(ipConnectionCounts, ip)) THEN "capacity-per-ip"
  ELSE IF GlobalCapacityReached(Len(clients)) THEN "capacity-global"
  ELSE IF url = BadUrl THEN "bad-url"
  ELSE ValidateToken(SessionTokenParam(url), ip, originHeader)

\* The early returns of the handler, in order; "ok" when it reaches handleUpgrade.
UpgradeReason(ip, originHeader, url) ==
  IF ~isOriginAllowed(originHeader) THEN "origin"
  ELSE IF GlobalCapacityReached(Len(clients)) THEN "capacity-global"
  ELSE IF IpCapacityReached(CountOf(ipConnectionCounts, ip)) THEN "capacity-per-ip"
  ELSE IF url = BadUrl THEN "bad-url"
  ELSE ValidateToken(SessionTokenParam(url), ip, originHeader)

\* rejectUpgrade(socket, status, ...); 101 is the completed upgrade
StatusOf(reason) ==
  CASE reason = "origin" -> 403
    [] reason = "capacity-global" -> 503
    [] reason = "capacity-per-ip" -> 429
    [] reason = "bad-url" -> 400
    [] reason = "ok" -> 101
    [] OTHER -> 401

\* sessionTokens.delete(sessionToken) on expired / ip mismatch / origin mismatch
RevokingReasons_singleUse == {"expired", "ip-mismatch", "origin-mismatch", "ok"}

RevokingReasons == {"expired", "ip-mismatch", "origin-mismatch"}

TokensAfterUpgrade_keepOnIpMismatch(reason, tok) ==
  IF reason \in {"expired", "origin-mismatch"} THEN MapDelete(sessionTokens, tok) ELSE sessionTokens

TokensAfterUpgrade(reason, tok) ==
  IF reason \in RevokingReasons THEN MapDelete(sessionTokens, tok) ELSE sessionTokens

RegisterClients_prepend(ws) == <<ws>> \o clients

\* wss.on('connection'): register the socket, send welcome and the held snapshot
RegisterClients(ws) == Append(clients, ws)

RegisterConn(ws, ip) ==
  MapSet(conn, ws, [ip |-> ip, connectedAt |-> now, lastPongAt |-> now])

\* ipConnectionCounts.set(ip, (ipConnectionCounts.get(ip) ?? 0) + 1)
RegisterCount(ip) == MapSet(ipConnectionCounts, ip, CountOf(ipConnectionCounts, ip) + 1)

JoinMessages_snapshotFirst == <<lastState, WelcomeMsg>>

JoinMessages_defaultSnapshot == <<WelcomeMsg, DefaultState>>

\* ws.send(JSON.stringify(welcome)); ws.send(lastState)
JoinMessages == <<WelcomeMsg, lastState>>

\* One upgrade request: ip from getClientIp, the Origin header and req.url.
Upgrade(ip, originHeader, url) ==
  LET reason == UpgradeReason(ip, originHeader, url)
      ws     == nextConn + 1
  IN
  /\ sessionTokens' = TokensAfterUpgrade(reason, SessionTokenParam(url))
  /\ last' = [event |-> "upgrade", reason |-> reason, status |-> StatusOf(reason)]
  /\ IF reason = "ok"
     THEN /\ clients' = RegisterClients(ws)
          /\ conn' = RegisterConn(ws, ip)
          /\ ipConnectionCounts' = RegisterCount(ip)
          /\ readyState' = MapSet(readyState, ws, "OPEN")
          /\ sent' = MapSet(sent, ws, JoinMessages)
          /\ listening' = listening \cup {ws}
          /\ nextConn' = ws
     ELSE UNCHANGED <<clients, conn, ipConnectionCounts, readyState, sent, listening,
                      nextConn>>
  /\ UNCHANGED <<config, now, nextToken, issued, closes, lastState, lastTimestamp, clientVars>>

\* ------------------------------------------------------------------------
\* GET /session-token
\* ------------------------------------------------------------------------
IssuedSession_rawOrigin(ip, originHeader) ==
  [ip |-> ip, origin |-> originHeader, expiresAt |-> now + sessionTokenTtlMs]

\* sessionTokens.set(token, { ip, origin: originHeader ?? '', expiresAt })
IssuedSession(ip, originHeader) ==
  [ip |-> ip, origin |-> IF originHeader = Undefined THEN "" ELSE originHeader,
   expiresAt |-> now + sessionTokenTtlMs]

\* const response: ErrorPayload = { error: 'Origin not allowed' }
ForbiddenBody == [error |-> "Origin not allowed"]

\* GET /session-token
TokenRequest(ip, originHeader, hostHeader) ==
  LET token == nextToken + 1 IN
  IF ~isSessionRequestAllowed(hostHeader, originHeader)
  THEN /\ last' = [event |-> "token-request", reason |-> "origin", status |-> 403,
                   body |-> ForbiddenBody]
       /\ UNCHANGED <<config, now, sessionTokens, nextToken, issued, clients, conn,
                      readyState, ipConnectionCounts, nextConn, closes,
                      lastState, lastTimestamp, sent, listening, clientVars>>
  ELSE /\ sessionTokens' =
            cleanExpiredSessionTokens(MapSet(sessionTokens, token, IssuedSession(ip, originHeader)), now)
       /\ issued' = MapSet(issued, token, IssuedSession(ip, originHeader))
       /\ nextToken' = token
       /\ last' = [event |-> "token-request", reason |-> "ok", status |-> 200,
                   body |-> [token |-> token,
                             expiresAt |-> IssuedSession(ip, originHeader).expiresAt]]
       /\ UNCHANGED <<config, now, clients, conn, readyState, ipConnectionCounts, nextConn,
                      closes, lastState, lastTimestamp, sent, listening, clientVars>>

\* cleanExpiredSessionTokens() run by its interval
SweepTick ==
  /\ sessionTokens' = cleanExpiredSessionTokens(sessionTokens, now)
  /\ last' = [event |-> "sweep", reason |-> "", status |-> 0]
  /\ UNCHANGED <<config, now, nextToken, issued, clients, conn, readyState,
                 ipConnectionCounts, nextConn, closes, lastState, lastTimestamp,
                 sent, listening, clientVars>>

\* ------------------------------------------------------------------------
\* Socket lifecycle
\* ------------------------------------------------------------------------
\* The peer goes away (close frame or connection loss): the socket leaves OPEN;
\* its 'close' event is delivered later.
PeerClose(ws) ==
  /\ ws \in DOMAIN readyState
  /\ readyState[ws] = "OPEN"
  /\ readyState' = MapSet(readyState, ws, "CLOSING")
  /\ last' = [event |-> "other", reason |-> "", status |-> 0]
  /\ UNCHANGED <<config, now, sessionTokens, nextToken, issued, clients, conn,
                 ipConnectionCounts, nextConn, closes, lastState, lastTimestamp,
                 sent, listening, clientVars>>

CountsAfterClose_keepZero(counts, ip) ==
  LET newCount == (IF ip \in DOMAIN counts THEN counts[ip] ELSE 1) - 1 IN
  IF newCount < 0 THEN MapDelete(counts, ip) ELSE MapSet(counts, ip, newCount)

\* const newCount = (ipConnectionCounts.get(ip) ?? 1) - 1; delete when <= 0
CountsAfterClose(counts, ip) ==
  LET newCount == (IF ip \in DOMAIN counts THEN counts[ip] ELSE 1) - 1 IN
  IF newCount <= 0 THEN MapDelete(counts, ip) ELSE MapSet(counts, ip, newCount)

ClientsAfterClose_keep(ws) == clients

\* clients.delete(ws)
ClientsAfterClose(ws) == SeqRemove(clients, ws)

\* ws.on('close'): emitted once per socket, after it left OPEN
OnClose(ws) ==
  /\ ws \in DOMAIN readyState
  /\ ws \in listening
  /\ readyState[ws] = "CLOSING"
  /\ clients' = ClientsAfterClose(ws)
  /\ ipConnectionCounts' = CountsAfterClose(ipConnectionCounts, conn[ws].ip)
  /\ conn' = MapDelete(conn, ws)
  /\ readyState' = MapDelete(readyState, ws)
  /\ sent' = MapDelete(sent, ws)
  /\ listening' = listening \ {ws}
  /\ closes' = closes + 1
  /\ last' = [event |-> "other", reason |-> "", status |-> 0]
  /\ UNCHANGED <<config, now, sessionTokens, nextToken, issued, nextConn, lastState,
                 lastTimestamp, clientVars>>

\* ws.on('pong'): const client = clients.get(ws); if (client) client.lastPongAt = Date.now()
OnPong(ws) ==
  /\ ws \in DOMAIN readyState
  /\ ws \in listening
  /\ readyState[ws] = "OPEN"
  /\ conn' = IF ws \in DOMAIN conn THEN [conn EXCEPT ![ws].lastPongAt = now] ELSE conn
  /\ last' = [event |-> "other", reason |-> "", status |-> 0]
  /\ UNCHANGED <<config, now, sessionTokens, nextToken, issued, clients, readyState,
                 ipConnectionCounts, nextConn, closes, lastState, lastTimestamp,
                 sent, listening, clientVars>>

OnMessage_keepAlive(ws) ==
  /\ ws \in DOMAIN readyState
  /\ ws \in listening
  /\ readyState[ws] = "OPEN"
  /\ conn' = [conn EXCEPT ![ws].lastPongAt = now]
  /\ last' = [event |-> "message", reason |-> "", status |-> 0]
  /\ UNCHANGED <<config, now, sessionTokens, nextToken, issued, clients, readyState,
                 ipConnectionCounts, nextConn, closes, lastState, lastTimestamp,
                 sent, listening, clientVars>>

\* ws.on('message', () => {})
OnMessage(ws) ==
  /\ ws \in DOMAIN readyState
  /\ ws \in listening
  /\ readyState[ws] = "OPEN"
  /\ last' = [event |-> "message", reason |-> "", status |-> 0]
  /\ UNCHANGED <<config, now, sessionTokens, nextToken, issued, clients, conn, readyState,
                 ipConnectionCounts, nextConn, closes, lastState, lastTimestamp,
                 sent, listening, clientVars>>

\* ------------------------------------------------------------------------
\* Poller and broadcast
\* ------------------------------------------------------------------------
isValidBroadcastPayload_noShapeCheck(content) == content.kind \in {"valid", "bad-shape"}

\* JSON.parse succeeded and isValidBroadcastPayload(parsed)
isValidBroadcastPayload(content) == content.kind = "valid"

TimestampChanged_byContent(content) == content # lastState

\* parsed.timestamp !== lastTimestamp
TimestampChanged(content) == content.timestamp # lastTimestamp

OpenClients_anyState == clients

\* for (const [ws, client] of clients) if (ws.readyState === ws.OPEN): the
\* sockets a loop over the registry visits and finds OPEN, in Map order
OpenClients == SelectSeq(clients, LAMBDA ws : readyState[ws] = "OPEN")

broadcastToClients_abortOnThrow(json, failing) ==
  LET throwing == {i \in 1..Len(OpenClients) : OpenClients[i] \in failing}
      stop == IF throwing = {} THEN Len(OpenClients)
              ELSE CHOOSE i \in throwing : \A j \in throwing : i <= j
  IN [i \in 1..stop |->
        [op |-> IF OpenClients[i] \in failing THEN "send-throws" ELSE "send",
         ws |-> OpenClients[i], data |-> json]]

\* broadcastToClients(json): the ws.send calls it makes, in order; a send to a
\* socket of `failing` throws and is caught, the loop goes on.
broadcastToClients(json, failing) ==
  [i \in 1..Len(OpenClients) |->
     [op |-> IF OpenClients[i] \in failing THEN "send-throws" ELSE "send",
      ws |-> OpenClients[i], data |-> json]]

pollStateFile_onlyNewer(content, failing) ==
  IF isValidBroadcastPayload(content) /\ content.timestamp > lastTimestamp
  THEN <<[op |-> "set-lastTimestamp", ws |-> 0, data |-> content],
         [op |-> "set-lastState", ws |-> 0, data |-> content]>>
       \o broadcastToClients(content, failing)
  ELSE <<>>

\* pollStateFile(): the statements it executes, in order, once the payload is
\* valid and its timestamp differs; nothing otherwise.
pollStateFile(content, failing) ==
  IF isValidBroadcastPayload(content) /\ TimestampChanged(content)
  THEN <<[op |-> "set-lastTimestamp", ws |-> 0, data |-> content],
         [op |-> "set-lastState", ws |-> 0, data |-> content]>>
       \o broadcastToClients(content, failing)
  ELSE <<>>

\* The messages the sends of a trace put on the wire of socket ws, in order.
RECURSIVE Delivered(_, _)
Delivered(trace, ws) ==
  IF trace = <<>> THEN <<>>
  ELSE (IF Head(trace).op = "send" /\ Head(trace).ws = ws
        THEN <<Head(trace).data>> ELSE <<>>) \o Delivered(Tail(trace), ws)

\* The value the last statement `op` of a trace assigns, or `old` if none does.
RECURSIVE Assigned(_, _, _)
Assigned(trace, op, old) ==
  IF trace = <<>> THEN old
  ELSE Assigned(Tail(trace), op, IF Head(trace).op = op THEN Head(trace).data ELSE old)

\* One run of the poll timer; the sends to the sockets of `failing` throw.
PollTick(content, failing) ==
  LET trace == pollStateFile(content, failing) IN
  /\ failing \subseteq Range(OpenClients)
  /\ trace # <<>> => \A ws \in DOMAIN sent : Len(sent[ws]) < MaxSent
  /\ lastTimestamp' = Assigned(trace, "set-lastTimestamp", [timestamp |-> lastTimestamp]).timestamp
  /\ lastState' = Assigned(trace, "set-lastState", lastState)
  /\ sent' = [ws \in DOMAIN sent |-> sent[ws] \o Delivered(trace, ws)]
  /\ last' = IF isValidBroadcastPayload(content)
             THEN [event |-> "other", reason |-> "", status |-> 0]
             ELSE [event |-> "poll", reason |-> "invalid", status |-> 0]
  /\ UNCHANGED <<config, now, sessionTokens, nextToken, issued, clients, conn, readyState,
                 ipConnectionCounts, nextConn, closes, listening, clientVars>>

\* ------------------------------------------------------------------------
\* Heartbeat
\* ------------------------------------------------------------------------
IsIdle_never(client, t) == FALSE

\* now - client.lastPongAt > config.idleTimeoutMs
IsIdle(client, t) == t - client.lastPongAt > config.idleTimeoutMs

pingClients_probeIdle ==
  [i \in 1..Len(clients) |->
     [op |-> IF readyState[clients[i]] = "OPEN" THEN "ping"
             ELSE IF IsIdle(conn[clients[i]], now) THEN "terminate" ELSE "skip",
      ws |-> clients[i]]]

\* pingClients(): the call it makes on each socket of the registry, in Map
\* order: ws.terminate() and continue when the socket is idle, ws.ping() when
\* it is not idle and OPEN, nothing otherwise.
pingClients ==
  [i \in 1..Len(clients) |->
     [op |-> IF IsIdle(conn[clients[i]], now) THEN "terminate"
             ELSE IF readyState[clients[i]] = "OPEN" THEN "ping" ELSE "skip",
      ws |-> clients[i]]]

\* The sockets a trace of pingClients calls `op` on.
CalledOn(trace, op) == {trace[i].ws : i \in {j \in DOMAIN trace : trace[j].op = op}}

\* One run of the heartbeat timer.
\* ws.terminate() destroys the socket; its 'close' event is delivered later.
PingTick ==
  LET idle == CalledOn(pingClients, "terminate") IN
  /\ readyState' = [ws \in DOMAIN readyState |->
                      IF ws \in idle THEN "CLOSING" ELSE readyState[ws]]
  /\ last' = [event |-> "ping", reason |-> "", status |-> 0]
  /\ UNCHANGED <<config, now, sessionTokens, nextToken, issued, clients, conn,
                 ipConnectionCounts, nextConn, closes, lastState, lastTimestamp,
                 sent, listening, clientVars>>

\* ------------------------------------------------------------------------
\* Time
\* ------------------------------------------------------------------------
Tick ==
  /\ now < MaxTicks * TickMs
  /\ now' = now + TickMs
  /\ last' = [event |-> "other", reason |-> "", status |-> 0]
  /\ UNCHANGED <<config, sessionTokens, nextToken, issued, clients, conn, readyState,
                 ipConnectionCounts, nextConn, closes, lastState, lastTimestamp,
                 sent, listening, clientVars>>

\* ------------------------------------------------------------------------
\* Specification
\* ------------------------------------------------------------------------
EmptyMap == [x \in {} |-> 0]

InitWith(configs) ==
  /\ config \in configs
  /\ now = 0
  /\ sessionTokens = EmptyMap
  /\ nextToken = 0
  /\ issued = EmptyMap
  /\ clients = <<>>
  /\ conn = EmptyMap
  /\ readyState = EmptyMap
  /\ ipConnectionCounts = EmptyMap
  /\ nextConn = 0
  /\ closes = 0
  /\ lastState = DefaultState
  /\ lastTimestamp = 0
  /\ sent = EmptyMap
  /\ last = [event |-> "start", reason |-> "", status |-> 0]
  /\ listening = {}
  /\ ClientInit

Init == InitWith(ConfigSet)

\* req.url values a client can send: unparsable, or carrying no token, a
\* guess, or any token issued so far.
RequestUrls == {BadUrl, NoToken, BogusToken} \cup (1..nextToken)

\* Bounds on the history counters: at most maxJoins upgrades complete and at
\* most maxTokens tokens are issued.
JoinsBelow(maxJoins, ip, o, url) == UpgradeReason(ip, o, url) = "ok" => nextConn < maxJoins

TokensBelow(maxTokens, o, h) == isSessionRequestAllowed(h, o) => nextToken < maxTokens

\* The handlers that take no request, the clock apart.
Handlers ==
  \/ SweepTick
  \/ \E ws \in DOMAIN readyState : PeerClose(ws)
  \/ \E ws \in DOMAIN readyState : OnClose(ws)
  \/ \E ws \in DOMAIN readyState : OnPong(ws)
  \/ \E ws \in DOMAIN readyState : OnMessage(ws)
  \/ \E content \in AdmissionFileContents : PollTick(content, {})
  \/ PingTick

\* Tokens are requested from one ip with every Origin and Host header, and
\* presented from every ip.
TokenRequestIps == {"10.0.0.1"}

Next ==
  \/ \E ip \in Ips, o \in OriginHeaders, url \in RequestUrls :
        JoinsBelow(MaxJoins, ip, o, url) /\ Upgrade(ip, o, url)
  \/ \E ip \in TokenRequestIps, o \in OriginHeaders, h \in HostHeaders :
        TokensBelow(MaxTokens, o, h) /\ TokenRequest(ip, o, h)
  \/ Handlers
  \/ Tick

Spec == Init /\ [][Next]_vars

\* Admission specification: the handshake, the token endpoint, the sweep, the
\* socket events and the clock, without the poller and the heartbeat.
NextAdmission ==
  \/ \E ip \in Ips, o \in OriginHeaders, url \in RequestUrls :
        JoinsBelow(MaxJoins, ip, o, url) /\ Upgrade(ip, o, url)
  \/ \E ip \in TokenRequestIps, o \in OriginHeaders, h \in HostHeaders :
        TokensBelow(MaxTokens, o, h) /\ TokenRequest(ip, o, h)
  \/ SweepTick
  \/ \E ws \in DOMAIN readyState : PeerClose(ws)
  \/ \E ws \in DOMAIN readyState : OnClose(ws)
  \/ \E ws \in DOMAIN readyState : OnMessage(ws)
  \/ Tick

SpecAdmission == Init /\ [][NextAdmission]_vars

\* Quota specification: several sockets within one clock reading; tokens are
\* requested by the viewer page from every ip.
NextQuota ==
  \/ \E ip \in Ips, o \in OriginHeaders, url \in RequestUrls :
        JoinsBelow(MaxJoinsQ, ip, o, url) /\ Upgrade(ip, o, url)
  \/ \E ip \in Ips, o \in {ViewerOrigin}, h \in {Undefined} :
        TokensBelow(MaxTokensQ, o, h) /\ TokenRequest(ip, o, h)
  \/ Handlers

SpecQuota == Init /\ [][NextQuota]_vars

\* Token-endpoint specification: tokens are requested from every ip with every
\* Origin and Host header, presented from every ip, swept and left to expire.
NextIssue ==
  \/ \E ip \in Ips, o \in OriginHeaders, url \in RequestUrls :
        JoinsBelow(MaxJoins, ip, o, url) /\ Upgrade(ip, o, url)
  \/ \E ip \in Ips, o \in OriginHeaders, h \in HostHeaders :
        TokensBelow(MaxTokens, o, h) /\ TokenRequest(ip, o, h)
  \/ SweepTick
  \/ Tick

SpecIssue == Init /\ [][NextIssue]_vars

\* Token-lifetime specification: the three ways of configuring the TTL (below
\* the floor, above it, absent) and a clock that reads any later instant of
\* ClockInstants.
TtlConfigSet ==
  { [allowedOrigins |-> <<>>, allowSameHostDifferentPort |-> FALSE,
     maxConnectionsPerIp |-> 1, maxTotalConnections |-> 2,
     idleTimeoutMs |-> 5000, hasTtl |-> h, sessionTokenTtlMs |-> ttl] :
    <<h, ttl>> \in {<<TRUE, 2000>>, <<TRUE, 10000>>, <<FALSE, 0>>} }

ClockInstants == {4000, 5000, 5001, 10000, 30000}

\* Date.now() reads a later instant.
AdvanceTo(t) ==
  /\ t > now
  /\ now' = t
  /\ last' = [event |-> "other", reason |-> "", status |-> 0]
  /\ UNCHANGED <<config, sessionTokens, nextToken, issued, clients, conn, readyState,
                 ipConnectionCounts, nextConn, closes, lastState, lastTimestamp,
                 sent, listening, clientVars>>

InitTtl == InitWith(TtlConfigSet)

NextTtl ==
  \/ \E ip \in Ips, o \in OriginHeaders, url \in RequestUrls :
        JoinsBelow(MaxJoins, ip, o, url) /\ Upgrade(ip, o, url)
  \/ \E ip \in TokenRequestIps, o \in OriginHeaders, h \in HostHeaders :
        TokensBelow(MaxTokens, o, h) /\ TokenRequest(ip, o, h)
  \/ SweepTick
  \/ \E t \in ClockInstants : AdvanceTo(t)

SpecTtl == InitTtl /\ [][NextTtl]_vars

\* setInterval(cleanExpiredSessionTokens, Math.min(60_000, sessionTokenTtlMs))
SweepCeilingMs == 60000

SweepIntervalMs_uncapped == sessionTokenTtlMs

SweepIntervalMs == Min(SweepCeilingMs, sessionTokenTtlMs)

\* The interval, created when the clock read 0, fires at every multiple of its
\* period.
SweepDue == now > 0 /\ now % SweepIntervalMs = 0

SweepTimer == SweepDue /\ SweepTick

\* Sweep specification: a TTL below the floor, one above the sweep ceiling and
\* an absent one; tokens are issued at several instants, so that expired and
\* unexpired entries are stored together; the sweep runs when its interval fires.
MaxTokensS == 2

SweepConfigSet ==
  { [allowedOrigins |-> <<>>, allowSameHostDifferentPort |-> FALSE,
     maxConnectionsPerIp |-> 1, maxTotalConnections |-> 2,
     idleTimeoutMs |-> 5000, hasTtl |-> h, sessionTokenTtlMs |-> ttl] :
    <<h, ttl>> \in {<<TRUE, 2000>>, <<TRUE, 120000>>, <<FALSE, 0>>} }

SweepInstants == {4000, 5000, 10000, 30000, 60000, 90000, 120000}

InitSweep == InitWith(SweepConfigSet)

NextSweep ==
  \/ \E ip \in Ips, o \in {ViewerOrigin}, url \in RequestUrls :
        JoinsBelow(MaxJoins, ip, o, url) /\ Upgrade(ip, o, url)
  \/ \E ip \in TokenRequestIps, o \in {ViewerOrigin}, h \in {Undefined} :
        TokensBelow(MaxTokensS, o, h) /\ TokenRequest(ip, o, h)
  \/ SweepTimer
  \/ \E t \in SweepInstants : AdvanceTo(t)

SpecSweep == InitSweep /\ [][NextSweep]_vars

\* setInterval(pingClients, 30000)
PingIntervalMs == 30000

\* The interval, created when the clock read 0, fires at every multiple of its
\* period.
PingDue == now > 0 /\ now % PingIntervalMs = 0

PingTimer == PingDue /\ PingTick

\* Probe specification: an idle timeout shorter than the probe period and one
\* longer; sockets join at several instants, answer probes or not, and leave;
\* the heartbeat runs when its interval fires.
ProbeConfigSet ==
  { [allowedOrigins |-> <<>>, allowSameHostDifferentPort |-> FALSE,
     maxConnectionsPerIp |-> 2, maxTotalConnections |-> 2,
     idleTimeoutMs |-> idle, hasTtl |-> TRUE, sessionTokenTtlMs |-> 10000] :
    idle \in {10000, 60000} }

ProbeInstants == {5000, 30000, 35000, 60000, 90000}

InitProbe == InitWith(ProbeConfigSet)

NextProbe ==
  \/ \E ip \in TokenRequestIps, o \in {ViewerOrigin}, url \in RequestUrls :
        JoinsBelow(MaxJoins, ip, o, url) /\ Upgrade(ip, o, url)
  \/ \E ip \in TokenRequestIps, o \in {ViewerOrigin}, h \in {Undefined} :
        TokensBelow(MaxTokens, o, h) /\ TokenRequest(ip, o, h)
  \/ \E ws \in DOMAIN readyState : PeerClose(ws)
  \/ \E ws \in DOMAIN readyState : OnClose(ws)
  \/ \E ws \in DOMAIN readyState : OnPong(ws)
  \/ PingTimer
  \/ \E t \in ProbeInstants : AdvanceTo(t)

SpecProbe == InitProbe /\ [][NextProbe]_vars

\* Allow-list specification: empty, well-formed and malformed allow-lists with
\* and without allowSameHostDifferentPort; requests carry origins that are
\* listed, differ from a listed one in port, scheme or host, or do not parse,
\* and Host headers with and without port.
OtherSchemeOrigin == "http://viewer.example.com"

AllOriginHeaders ==
  {Undefined, ViewerOrigin, ViewerOtherPort, OtherSchemeOrigin, EvilOrigin, MalformedOrigin}

AllHostHeaders ==
  {Undefined, "viewer.example.com:443", "viewer.example.com", "evil.example.com", "bad host"}

AllowListConfigSet ==
  { [allowedOrigins |-> list, allowSameHostDifferentPort |-> flag,
     maxConnectionsPerIp |-> 1, maxTotalConnections |-> 2,
     idleTimeoutMs |-> 5000, hasTtl |-> TRUE, sessionTokenTtlMs |-> 10000] :
    list \in {<<>>, <<MalformedOrigin>>, <<MalformedOrigin, ViewerOrigin>>,
              <<ViewerOtherPort, MalformedOrigin>>},
    flag \in BOOLEAN }

InitAllowList == InitWith(AllowListConfigSet)

NextAllowList ==
  \/ \E ip \in TokenRequestIps, o \in AllOriginHeaders, url \in RequestUrls :
        JoinsBelow(MaxJoins, ip, o, url) /\ Upgrade(ip, o, url)
  \/ \E ip \in TokenRequestIps, o \in AllOriginHeaders, h \in AllHostHeaders :
        TokensBelow(MaxTokens, o, h) /\ TokenRequest(ip, o, h)

SpecAllowList == InitAllowList /\ [][NextAllowList]_vars

\* Poll specification: every kind of state file content, an unreadable file
\* included, polled while sockets join and leave; sends of a broadcast may throw.
PollFileContents ==
  FileContents \cup {[kind |-> "unreadable", timestamp |-> 0, body |-> ""]}

NextPoll ==
  \/ \E ip \in TokenRequestIps, o \in {ViewerOrigin}, url \in RequestUrls :
        JoinsBelow(MaxJoins, ip, o, url) /\ Upgrade(ip, o, url)
  \/ \E ip \in TokenRequestIps, o \in {ViewerOrigin}, h \in {Undefined} :
        TokensBelow(MaxTokens, o, h) /\ TokenRequest(ip, o, h)
  \/ \E ws \in DOMAIN readyState : PeerClose(ws)
  \/ \E ws \in DOMAIN readyState : OnClose(ws)
  \/ \E content \in PollFileContents, failing \in SUBSET Range(OpenClients) :
        PollTick(content, failing)

SpecPoll == Init /\ [][NextPoll]_vars

\* Broadcast specification: every kind of state file content, sends that throw,
\* sockets that join and leave, within one clock reading.
NextBroadcast ==
  \/ \E ip \in Ips, o \in {ViewerOrigin}, url \in RequestUrls :
        JoinsBelow(MaxJoinsB, ip, o, url) /\ Upgrade(ip, o, url)
  \/ \E ip \in TokenRequestIps, o \in {ViewerOrigin}, h \in {Undefined} :
        TokensBelow(MaxTokensB, o, h) /\ TokenRequest(ip, o, h)
  \/ \E ws \in DOMAIN readyState : PeerClose(ws)
  \/ \E ws \in DOMAIN readyState : OnClose(ws)
  \/ \E content \in FileContents, failing \in SUBSET Range(clients) :
        PollTick(content, failing)

SpecBroadcast == Init /\ [][NextBroadcast]_vars

\* Heartbeat specification: peers never close by themselves, and they stop
\* answering pings early enough for the bounded clock to outrun the idle
\* timeout (no join and no pong once now + idleTimeoutMs reaches the last
\* clock reading).  The timers keep firing and pending 'close' events are
\* delivered: weak fairness on the clock, the heartbeat and the close handler.
ClockOutrunsIdle == now + config.idleTimeoutMs < MaxTicks * TickMs

NextHeartbeat ==
  \/ \E ip \in Ips, o \in {ViewerOrigin}, url \in RequestUrls :
        /\ JoinsBelow(MaxJoins, ip, o, url)
        /\ UpgradeReason(ip, o, url) = "ok" => ClockOutrunsIdle
        /\ Upgrade(ip, o, url)
  \/ \E ip \in TokenRequestIps, o \in {ViewerOrigin}, h \in {Undefined} :
        TokensBelow(MaxTokens, o, h) /\ TokenRequest(ip, o, h)
  \/ \E ws \in DOMAIN readyState : OnClose(ws)
  \/ \E ws \in DOMAIN readyState : ClockOutrunsIdle /\ OnPong(ws)
  \/ \E content \in AdmissionFileContents : PollTick(content, {})
  \/ PingTick
  \/ Tick

SpecHeartbeat ==
  /\ Init /\ [][NextHeartbeat]_vars
  /\ WF_vars(Tick)
  /\ WF_vars(PingTick)
  /\ \A ws \in 1..MaxJoins : WF_vars(OnClose(ws))

\* Process exit.  The program registers no 'SIGINT' or 'SIGTERM' listener, keeps
\* no handle of its three intervals and never calls clearInterval, ws.close on
\* the registered sockets or a close of either server: a termination signal
\* ends the process by its default disposition, with no handler run.  Timers
\* are the intervals created at start, all of them still scheduled at exit.
Timers == {"pollStateFile", "pingClients", "cleanExpiredSessionTokens"}

Running == last.event # "exit"

ProcessExit ==
  /\ Running
  /\ last' = [event |-> "exit", reason |-> "signal", status |-> 0]
  /\ UNCHANGED <<config, now, sessionTokens, nextToken, issued, clients, conn,
                 readyState, ipConnectionCounts, nextConn, closes, lastState,
                 lastTimestamp, sent, listening, clientVars>>

NextShutdown ==
  \/ Running /\ Next
  \/ ProcessExit

SpecShutdown == Init /\ [][NextShutdown]_vars

\* Join-failure specification: a ws.send of the 'connection' handler throws.
JoinSends == {"welcome", "state"}

\* wss.on('connection') when its send `thrown` throws: the statements before
\* it have run, the listeners after it are never attached.  No try/catch
\* surrounds the sends and the process installs no 'uncaughtException'
\* handler: the exception leaves the 'upgrade' listener and ends the process.
UpgradeSendThrows(ip, originHeader, url, thrown) ==
  LET ws == nextConn + 1 IN
  /\ UpgradeReason(ip, originHeader, url) = "ok"
  /\ sessionTokens' = TokensAfterUpgrade("ok", SessionTokenParam(url))
  /\ clients' = RegisterClients(ws)
  /\ conn' = RegisterConn(ws, ip)
  /\ ipConnectionCounts' = RegisterCount(ip)
  /\ readyState' = MapSet(readyState, ws, "OPEN")
  /\ sent' = MapSet(sent, ws, IF thrown = "welcome" THEN <<>> ELSE <<WelcomeMsg>>)
  /\ nextConn' = ws
  /\ last' = [event |-> "exit", reason |-> "uncaught", status |-> 1]
  /\ UNCHANGED <<config, now, nextToken, issued, closes, lastState, lastTimestamp,
                 listening, clientVars>>

NextJoinFailure ==
  \/ Running /\ NextAdmission
  \/ \E ip \in Ips, o \in OriginHeaders, url \in RequestUrls, thrown \in JoinSends :
        Running /\ JoinsBelow(MaxJoins, ip, o, url) /\ UpgradeSendThrows(ip, o, url, thrown)

SpecJoinFailure == Init /\ [][NextJoinFailure]_vars

\* ------------------------------------------------------------------------
\* Viewer hook: useWebSocket
\* ------------------------------------------------------------------------
\* At most MaxFetches session-token requests are made.
MaxFetches == 3

\* controller.abort() on the controller a ref holds
AbortVia(ref) ==
  IF ref \in DOMAIN fetches THEN [fetches EXCEPT ![ref] = "aborted"] ELSE fetches

\* wsRef.current.close() when wsRef.current is set
CloseCurrent ==
  IF wsRef \in DOMAIN sockets THEN [sockets EXCEPT ![wsRef] = "CLOSING"] ELSE sockets

\* The history after wsRef.current.close() replaces the socket the ref holds.
SupersedeCurrent ==
  IF wsRef \in DOMAIN sockets /\ sockets[wsRef] = "OPEN"
  THEN [superseded EXCEPT !.sockets = @ \cup {wsRef}] ELSE superseded

\* reconnectTimeoutRef.current = setTimeout(() => connectRef.current(), reconnectIntervalMs)
ScheduleReconnect ==
  /\ timers' = timers \cup {created.timer + 1}
  /\ reconnectTimeoutRef' = created.timer + 1

\* .finally: if (tokenRequestAbortRef.current === abortController) tokenRequestAbortRef.current = null
AbortRefAfter(f) == IF tokenRequestAbortRef = f THEN 0 ELSE tokenRequestAbortRef

\* connect(), called with the reconnect timers `pending`: clear the timer the
\* ref holds, close the socket the ref holds (the ref keeps it), abort the
\* token request in flight; return early when the url is invalid or an
\* insecure ws:// on an https page (`blocked`), else start a token request.
connect(pending, blocked) ==
  /\ ~blocked => created.fetch < MaxFetches
  /\ timers' = pending \ {reconnectTimeoutRef}
  /\ reconnectTimeoutRef' = 0
  /\ sockets' = CloseCurrent
  /\ superseded' = SupersedeCurrent
  /\ IF blocked
     THEN /\ fetches' = AbortVia(tokenRequestAbortRef)
          /\ tokenRequestAbortRef' = 0
          /\ isConnected' = FALSE
          /\ created' = created
     ELSE /\ fetches' = MapSet(AbortVia(tokenRequestAbortRef), created.fetch + 1, "pending")
          /\ tokenRequestAbortRef' = created.fetch + 1
          /\ isConnected' = isConnected
          /\ created' = [created EXCEPT !.fetch = created.fetch + 1]
  /\ UNCHANGED <<mounted, wsRef, serverVars>>

\* The effect's setTimeout(() => connectRef.current(), 0) fires.
ConnectTimerFires(blocked) ==
  /\ connectTimer
  /\ connectTimer' = FALSE
  /\ connect(timers, blocked)

\* The component calls the returned reconnect().
Reconnect(blocked) ==
  /\ mounted
  /\ connectTimer' = connectTimer
  /\ connect(timers, blocked)

\* A reconnect timer fires: connectRef.current().
ReconnectTimerFires(t, blocked) ==
  /\ t \in timers
  /\ connectTimer' = connectTimer
  /\ connect(timers \ {t}, blocked)

\* The token request succeeds with a valid payload: new WebSocket, wsRef.current = ws.
FetchResolves(f) ==
  /\ f \in DOMAIN fetches /\ fetches[f] = "pending"
  /\ sockets' = MapSet(sockets, created.socket + 1, "CONNECTING")
  /\ wsRef' = created.socket + 1
  /\ created' = [created EXCEPT !.socket = created.socket + 1]
  /\ fetches' = MapDelete(fetches, f)
  /\ tokenRequestAbortRef' = AbortRefAfter(f)
  /\ UNCHANGED <<mounted, connectTimer, reconnectTimeoutRef, timers, isConnected,
                 superseded, serverVars>>

\* The token request fails (network error, non-2xx status, invalid payload)
\* without having been aborted: .catch schedules a reconnect.
FetchFails(f) ==
  /\ f \in DOMAIN fetches /\ fetches[f] = "pending"
  /\ isConnected' = FALSE
  /\ ScheduleReconnect
  /\ created' = [created EXCEPT !.timer = created.timer + 1]
  /\ fetches' = MapDelete(fetches, f)
  /\ tokenRequestAbortRef' = AbortRefAfter(f)
  /\ UNCHANGED <<mounted, connectTimer, wsRef, sockets, superseded, serverVars>>

\* An aborted token request rejects: .catch returns at once.
FetchAborted(f) ==
  /\ f \in DOMAIN fetches /\ fetches[f] = "aborted"
  /\ fetches' = MapDelete(fetches, f)
  /\ tokenRequestAbortRef' = AbortRefAfter(f)
  /\ UNCHANGED <<mounted, connectTimer, wsRef, reconnectTimeoutRef, timers, sockets,
                 created, isConnected, superseded, serverVars>>

\* ws.onopen
SocketOpens(ws) ==
  /\ ws \in DOMAIN sockets /\ sockets[ws] = "CONNECTING"
  /\ sockets' = [sockets EXCEPT ![ws] = "OPEN"]
  /\ isConnected' = TRUE
  /\ UNCHANGED <<mounted, connectTimer, wsRef, reconnectTimeoutRef, tokenRequestAbortRef,
                 timers, fetches, created, superseded, serverVars>>

\* The server closes the socket, rejects the upgrade, or the connection is lost.
SocketLost(ws) ==
  /\ ws \in DOMAIN sockets /\ sockets[ws] \in {"CONNECTING", "OPEN"}
  /\ sockets' = [sockets EXCEPT ![ws] = "CLOSING"]
  /\ UNCHANGED <<mounted, connectTimer, wsRef, reconnectTimeoutRef, tokenRequestAbortRef,
                 timers, fetches, created, isConnected, superseded, serverVars>>

\* ws.onclose of a socket that left OPEN or CONNECTING, whoever closed it.
SocketCloseEvent(ws) ==
  /\ ws \in DOMAIN sockets /\ sockets[ws] = "CLOSING"
  /\ sockets' = MapDelete(sockets, ws)
  /\ isConnected' = FALSE
  /\ wsRef' = 0
  /\ ScheduleReconnect
  /\ created' = [created EXCEPT !.timer = created.timer + 1]
  /\ superseded' = IF ws \in superseded.sockets
                   THEN [superseded EXCEPT !.timers = @ \cup {created.timer + 1}]
                   ELSE superseded
  /\ UNCHANGED <<mounted, connectTimer, tokenRequestAbortRef, fetches, serverVars>>

\* The cleanup of the connect-on-mount effect: clearTimeout(connectTimer),
\* clear the reconnect timer, abort the token request and close the socket the
\* refs hold; the refs keep their values.  `again` is TRUE when the effect runs
\* again after it (connect changed with url or reconnectIntervalMs) and FALSE
\* on unmount.
EffectCleanup(again) ==
  /\ mounted
  /\ mounted' = again
  /\ connectTimer' = again
  /\ timers' = timers \ {reconnectTimeoutRef}
  /\ fetches' = AbortVia(tokenRequestAbortRef)
  /\ sockets' = CloseCurrent
  /\ superseded' = IF again THEN SupersedeCurrent ELSE superseded
  /\ UNCHANGED <<wsRef, reconnectTimeoutRef, tokenRequestAbortRef, created, isConnected,
                 serverVars>>

NextClient ==
  \/ \E blocked \in BOOLEAN : ConnectTimerFires(blocked)
  \/ \E blocked \in BOOLEAN : Reconnect(blocked)
  \/ \E t \in timers, blocked \in BOOLEAN : ReconnectTimerFires(t, blocked)
  \/ \E f \in DOMAIN fetches : FetchResolves(f)
  \/ \E f \in DOMAIN fetches : FetchFails(f)
  \/ \E f \in DOMAIN fetches : FetchAborted(f)
  \/ \E ws \in DOMAIN sockets : SocketOpens(ws)
  \/ \E ws \in DOMAIN sockets : SocketLost(ws)
  \/ \E ws \in DOMAIN sockets : SocketCloseEvent(ws)
  \/ \E again \in BOOLEAN : EffectCleanup(again)

SpecClient == Init /\ [][NextClient]_vars

\* ------------------------------------------------------------------------
\* Properties
\* ------------------------------------------------------------------------
\* The handshake returned before it looked at the token.
EarlyReasons == {"origin", "capacity-global", "capacity-per-ip", "bad-url"}

\* The Origin header of the token request that bound this session.
BoundOriginHeader(session) == IF session.origin = "" THEN Undefined ELSE session.origin

IssuedTokens == 1..nextToken

\* C1: a socket enters the registry only in an upgrade handshake, and only
\* when the token that handshake presented was, at that moment, in the token
\* store, unexpired, bound to the request's ip and, when both the bound and
\* the request origin are non-empty, bound to the request's origin.
C1_RegisteredOnlyWithValidToken ==
  [][ /\ Range(clients') \subseteq Range(clients) \/ last'.event = "upgrade"
      /\ last'.event = "upgrade" /\ clients' # clients =>
           \A ip \in Ips, o \in OriginHeaders, url \in RequestUrls :
             Upgrade(ip, o, url) =>
               /\ url \in DOMAIN sessionTokens
               /\ sessionTokens[url].expiresAt > now
               /\ sessionTokens[url].ip = ip
               /\ conn'[nextConn'].ip = ip
               /\ (sessionTokens[url].origin # "" /\ o # Undefined
                     => sessionTokens[url].origin = o) ]_vars

\* C1 witness: a socket is registered by a handshake that just completed.
C1_Witness == last.event = "upgrade" /\ last.reason = "ok" /\ Len(clients) >= 1

\* The step is an upgrade handshake that presented token t from (ip, o) and
\* got as far as the token checks.
ValidationStep(ip, o, t) ==
  /\ last'.event = "upgrade"
  /\ last'.reason \notin EarlyReasons
  /\ Upgrade(ip, o, t)

\* C2 as stated: a validation with the token's own ip and origin is accepted
\* whenever it happens before expiresAt and is rejected as `expired` whenever
\* it happens at or after expiresAt, whatever happened to the token before.
C2_Original ==
  [][ \A t \in IssuedTokens :
        ValidationStep(issued[t].ip, BoundOriginHeader(issued[t]), t) =>
          /\ now < issued[t].expiresAt => last'.reason = "ok"
          /\ now >= issued[t].expiresAt => last'.reason = "expired" ]_vars

\* C2 amended: while the token's entry is still in the store, a validation
\* with the token's own ip and origin is accepted before expiresAt and rejected
\* as `expired` at or after it; once the entry was removed (by a sweep or by an
\* earlier rejecting validation) the validation is rejected as `invalid`.
C2_StoredTokenValidUntilExpiry ==
  [][ \A t \in IssuedTokens :
        ValidationStep(issued[t].ip, BoundOriginHeader(issued[t]), t) =>
          /\ (t \in DOMAIN sessionTokens /\ now < issued[t].expiresAt)
               => last'.reason = "ok"
          /\ (t \in DOMAIN sessionTokens /\ now >= issued[t].expiresAt)
               => last'.reason = "expired"
          /\ t \notin DOMAIN sessionTokens => last'.reason = "invalid" ]_vars

\* C2 witness: a token is accepted at a later time than its issue, before expiry.
C2_Witness ==
  /\ last.event = "upgrade" /\ last.reason = "ok" /\ now > 0
  /\ \E t \in DOMAIN sessionTokens : now < sessionTokens[t].expiresAt

\* C3: no upgrade handshake that presents a token whose expiresAt <= now is
\* accepted or registers a socket, whether the token is still stored or was swept.
C3_NoExpiredTokenAccepted ==
  [][ (last'.event = "upgrade" /\ (last'.reason = "ok" \/ clients' # clients)) =>
        \A t \in IssuedTokens, ip \in Ips, o \in OriginHeaders :
          issued[t].expiresAt <= now => ~Upgrade(ip, o, t) ]_vars

\* C3 witness: a token is rejected as expired at the very instant expiresAt.
C3_Witness ==
  /\ last.event = "upgrade" /\ last.reason = "expired"
  /\ \E t \in IssuedTokens : issued[t].expiresAt = now /\ t \notin DOMAIN sessionTokens

\* C4: a validation of a stored, unexpired token from an ip other than the
\* bound one is rejected as `ip-mismatch` and removes the entry; a removed
\* entry never returns, and every validation of a removed token, from any ip,
\* is rejected as `invalid`.
C4_IpMismatchRevokes ==
  [][ /\ \A t \in IssuedTokens \ DOMAIN sessionTokens : t \notin DOMAIN sessionTokens'
      /\ (last'.event = "upgrade" /\ last'.reason \notin EarlyReasons) =>
           \A t \in IssuedTokens, ip \in Ips, o \in OriginHeaders :
             /\ (/\ t \in DOMAIN sessionTokens
                 /\ sessionTokens[t].expiresAt > now
                 /\ sessionTokens[t].ip # ip
                 /\ last'.reason # "ip-mismatch" \/ t \in DOMAIN sessionTokens')
                  => ~ValidationStep(ip, o, t)
             /\ (t \notin DOMAIN sessionTokens /\ last'.reason # "invalid")
                  => ~ValidationStep(ip, o, t) ]_vars

\* C4 witness: an ip-mismatch rejection has removed a token that is not expired.
C4_Witness ==
  /\ last.event = "upgrade" /\ last.reason = "ip-mismatch"
  /\ \E t \in IssuedTokens : t \notin DOMAIN sessionTokens /\ issued[t].expiresAt > now

\* Number of registered sockets whose ip is this ip.
RegisteredFrom(ip) == Cardinality({ws \in Range(clients) : conn[ws].ip = ip})

C6_SizeIsJoinsMinusCloses ==
  /\ Len(clients) = nextConn - closes
  /\ Range(clients) \subseteq 1..nextConn
  /\ Cardinality(Range(clients)) = Len(clients)
  /\ DOMAIN conn = Range(clients)

\* C6 witness: one socket was closed while another is still registered.
C6_Witness == closes >= 1 /\ Len(clients) >= 1 /\ nextConn >= 2

\* C7: for every ip, ipConnectionCounts holds the number of registered sockets
\* with that ip, and holds no key whose count is zero or negative.
C7_CountsMatchRegistry ==
  /\ \A ip \in Ips :
       IF ip \in DOMAIN ipConnectionCounts
       THEN ipConnectionCounts[ip] = RegisteredFrom(ip)
       ELSE RegisteredFrom(ip) = 0
  /\ \A ip \in DOMAIN ipConnectionCounts : ipConnectionCounts[ip] > 0

\* C7 witness: after a close, one ip has lost its key and another still has one.
C7_Witness ==
  /\ closes >= 1
  /\ \E ip \in Ips : ip \notin DOMAIN ipConnectionCounts
  /\ \E ip \in Ips : ip \in DOMAIN ipConnectionCounts

\* C8: while the registry holds maxTotalConnections sockets, the handshake
\* answers every request whose origin is allowed with 503 capacity-global,
\* whatever its ip and token; an upgrade step taken then registers nothing, and
\* the registry only stops being full by a close handler.
C8_FullRegistryRejects ==
  /\ [](Len(clients) >= config.maxTotalConnections =>
          \A ip \in Ips, o \in OriginHeaders, url \in RequestUrls :
            isOriginAllowed(o) =>
              /\ UpgradeReason(ip, o, url) = "capacity-global"
              /\ StatusOf(UpgradeReason(ip, o, url)) = 503)
  /\ [][  /\ (Len(clients) >= config.maxTotalConnections /\ last'.event = "upgrade") =>
               (/\ last'.reason \in {"origin", "capacity-global"}
                /\ clients' = clients /\ nextConn' = nextConn)
          /\ (Len(clients) >= config.maxTotalConnections
                /\ Len(clients') < config.maxTotalConnections) => closes' = closes + 1 ]_vars

\* C8 witness: a handshake was answered 503 by a full registry.
C8_Witness ==
  /\ last.event = "upgrade" /\ last.status = 503
  /\ Len(clients) = config.maxTotalConnections

\* The token is in the store, unexpired and bound to this ip and origin.
ValidFor(t, ip, o) ==
  /\ t \in DOMAIN sessionTokens
  /\ sessionTokens[t].expiresAt > now
  /\ sessionTokens[t].ip = ip
  /\ (sessionTokens[t].origin # "" /\ Truthy(o)) => sessionTokens[t].origin = o

\* C9: while the global limit is not reached, the handshake answers a request
\* from an ip that has maxConnectionsPerIp registered sockets with 429 whatever
\* token it carries, and admits a request with a valid token from an ip below
\* its quota even though another ip is at its quota; a 429 step leaves the
\* registered sockets as they are, and an admitted socket's ip was below its
\* quota.
C9_PerIpQuotaIsPerIp ==
  /\ [](Len(clients) < config.maxTotalConnections =>
          \A ip \in Ips, o \in OriginHeaders, url \in RequestUrls :
            isOriginAllowed(o) =>
              /\ RegisteredFrom(ip) >= config.maxConnectionsPerIp =>
                   (StatusOf(UpgradeReason(ip, o, url)) = 429)
              /\ (/\ RegisteredFrom(ip) < config.maxConnectionsPerIp
                  /\ \E other \in Ips \ {ip} :
                       RegisteredFrom(other) >= config.maxConnectionsPerIp
                  /\ ValidFor(url, ip, o)) =>
                   UpgradeReason(ip, o, url) = "ok")
  /\ [][ last'.event = "upgrade" =>
          /\ last'.status = 429 =>
               (clients' = clients /\ conn' = conn /\ readyState' = readyState)
          /\ last'.reason = "ok" =>
               (/\ clients' = Append(clients, nextConn')
                /\ RegisteredFrom(conn'[nextConn'].ip) < config.maxConnectionsPerIp
                /\ \A ws \in Range(clients) :
                     conn'[ws] = conn[ws] /\ readyState'[ws] = readyState[ws]) ]_vars

\* C9 witness: an attempt was answered 429 while its ip's sockets are open and
\* the registry is not full.
C9_Witness ==
  /\ last.event = "upgrade" /\ last.status = 429
  /\ Len(clients) < config.maxTotalConnections
  /\ \E ip \in Ips :
       /\ RegisteredFrom(ip) = config.maxConnectionsPerIp
       /\ \A ws \in Range(clients) : readyState[ws] = "OPEN"
  /\ Cardinality(DOMAIN sessionTokens) >= 2

\* The status the handshake table prescribes, from the request and the state.
ExpectedStatus(ip, o, url) ==
  IF ~isOriginAllowed(o) THEN 403
  ELSE IF Len(clients) >= config.maxTotalConnections THEN 503
  ELSE IF RegisteredFrom(ip) >= config.maxConnectionsPerIp THEN 429
  ELSE IF url = BadUrl THEN 400
  ELSE IF ~ValidFor(url, ip, o) THEN 401
  ELSE 101

\* C10: the handshake answers every request with the status of the first
\* condition that applies, in the order origin 403, global capacity 503, per-ip
\* capacity 429, unparsable URL 400, token 401; a step that answers anything
\* but 101 registers nothing, and a step that answers 101 registers one socket.
C10_RejectionOrder ==
  /\ [](\A ip \in Ips, o \in OriginHeaders, url \in RequestUrls :
          StatusOf(UpgradeReason(ip, o, url)) = ExpectedStatus(ip, o, url))
  /\ [][ last'.event = "upgrade" =>
          /\ last'.status # 101 =>
               (/\ clients' = clients /\ conn' = conn /\ nextConn' = nextConn
                /\ ipConnectionCounts' = ipConnectionCounts)
          /\ last'.status = 101 =>
               (/\ nextConn' = nextConn + 1
                /\ clients' = Append(clients, nextConn')) ]_vars

\* C10 witness: both limits are exhausted and the answer was 503.
C10_Witness ==
  /\ last.event = "upgrade" /\ last.reason = "capacity-global"
  /\ Len(clients) >= config.maxTotalConnections
  /\ \A ip \in DOMAIN ipConnectionCounts :
       ipConnectionCounts[ip] >= config.maxConnectionsPerIp

\* C11: a token request that fails the origin/host check is answered 403 with
\* the error body and leaves the token store as it was; a request that passes
\* is answered 200 with a token value never issued before, stored bound to the
\* request's ip and to its Origin header ("" when absent), and the expiresAt
\* of the response is the stored expiresAt.
C11_TokenEndpoint ==
  [][ last'.event = "token-request" =>
        /\ last'.status \in {200, 403}
        /\ last'.status = 403 =>
             (/\ sessionTokens' = sessionTokens
              /\ last'.body = [error |-> "Origin not allowed"])
        /\ last'.status = 200 =>
             (/\ last'.body.token \notin DOMAIN issued
              /\ last'.body.token \in DOMAIN sessionTokens'
              /\ sessionTokens'[last'.body.token].expiresAt = last'.body.expiresAt)
        /\ \A ip \in Ips, o \in OriginHeaders, h \in HostHeaders :
             (\/ isSessionRequestAllowed(h, o) # (last'.status = 200)
              \/ /\ last'.status = 200
                 /\ \/ sessionTokens'[last'.body.token].ip # ip
                    \/ sessionTokens'[last'.body.token].origin
                         # (IF o = Undefined THEN "" ELSE o))
               => ~TokenRequest(ip, o, h) ]_vars

\* C11 witness: a request without Origin header from the second ip was
\* answered 200 and its token is stored with the empty origin.
C11_Witness ==
  /\ last.event = "token-request" /\ last.status = 200
  /\ last.body.token \in DOMAIN sessionTokens
  /\ sessionTokens[last.body.token].origin = ""
  /\ sessionTokens[last.body.token].ip = "10.0.0.2"
  /\ sessionTokens[last.body.token].expiresAt = last.body.expiresAt

\* C12: an accepted handshake leaves the token store as it was, and right
\* after it the token it presented validates again from the same ip and
\* origin; in every state a stored, unexpired token presented from its ip and
\* origin (the origin being allowed) is refused only by a connection quota.
C12_TokenReusable ==
  /\ [](\A t \in DOMAIN sessionTokens, ip \in Ips, o \in OriginHeaders :
          (ValidFor(t, ip, o) /\ isOriginAllowed(o)) =>
            UpgradeReason(ip, o, t) \in {"ok", "capacity-global", "capacity-per-ip"})
  /\ [][ (last'.event = "upgrade" /\ last'.reason = "ok") =>
          /\ sessionTokens' = sessionTokens
          /\ \A t \in IssuedTokens, ip \in Ips, o \in OriginHeaders :
               (ValidateToken(t, ip, o))' # "ok" => ~Upgrade(ip, o, t) ]_vars

\* C12 witness: two sockets are registered and only one token was ever issued.
C12_Witness ==
  /\ last.event = "upgrade" /\ last.reason = "ok"
  /\ nextToken = 1 /\ Len(clients) = 2
  /\ 1 \in DOMAIN sessionTokens

\* The TTL the configuration prescribes: the configured value, 30000 ms when
\* the option is absent, and never less than 5000 ms.
PrescribedTtl ==
  LET configured == IF config.hasTtl THEN config.sessionTokenTtlMs ELSE 30000
  IN IF configured < 5000 THEN 5000 ELSE configured

\* C13: every token is issued with expiresAt = issue time + the prescribed
\* TTL; with sessionTokenTtlMs = 2000 a stored token issued at 0 (expiresAt
\* 5000) validates from its ip and origin at 4000 and does not at 5001, and no
\* handshake presenting it at or after 5000 is accepted.
C13_TtlClamped ==
  /\ [][ (last'.event = "token-request" /\ last'.status = 200) =>
          /\ last'.body.expiresAt = now + PrescribedTtl
          /\ sessionTokens'[last'.body.token].expiresAt = now + PrescribedTtl
          /\ issued'[last'.body.token].expiresAt = now + PrescribedTtl ]_vars
  /\ []((config.hasTtl /\ config.sessionTokenTtlMs = 2000) =>
          \A t \in DOMAIN sessionTokens :
            sessionTokens[t].expiresAt = 5000 =>
              LET v == ValidateToken(t, sessionTokens[t].ip,
                                     BoundOriginHeader(sessionTokens[t]))
              IN /\ now = 4000 => v = "ok"
                 /\ now = 5001 => v = "expired")
  /\ [][ (config.hasTtl /\ config.sessionTokenTtlMs = 2000 /\ now >= 5000
            /\ last'.event = "upgrade" /\ last'.reason = "ok") =>
          \A t \in IssuedTokens, ip \in Ips, o \in OriginHeaders :
            issued[t].expiresAt = 5000 => ~Upgrade(ip, o, t) ]_vars

\* C13 witness: with sessionTokenTtlMs = 2000 the token issued at 0 opened a
\* socket at 4000 and has just been rejected as expired at 5001.
C13_Witness ==
  /\ config.hasTtl /\ config.sessionTokenTtlMs = 2000
  /\ now = 5001
  /\ last.event = "upgrade" /\ last.reason = "expired"
  /\ 1 \in DOMAIN issued /\ issued[1].expiresAt = 5000
  /\ \E ws \in DOMAIN conn : conn[ws].connectedAt = 4000

\* C14: a poll that reads a valid payload whose timestamp equals lastTimestamp
\* executes no statement: it sends nothing and leaves the held snapshot and
\* lastTimestamp as they are, also when the payload differs from the one held.
C14_SameTimestampDiscarded ==
  /\ [](\A content \in FileContents, failing \in SUBSET Range(clients) :
          (content.kind = "valid" /\ content.timestamp = lastTimestamp) =>
            pollStateFile(content, failing) = <<>>)
  /\ [][ (sent' # sent \/ lastState' # lastState \/ lastTimestamp' # lastTimestamp) =>
          \A content \in FileContents, failing \in SUBSET Range(clients) :
            (content.kind = "valid" /\ content.timestamp = lastTimestamp) =>
              ~PollTick(content, failing) ]_vars

\* C14 witness: payload "a" was broadcast with timestamp 100 to an open socket
\* and is held; the state file may now hold payload "b" with timestamp 100.
C14_Witness ==
  /\ lastTimestamp = 100
  /\ lastState = [kind |-> "valid", timestamp |-> 100, body |-> "a"]
  /\ [kind |-> "valid", timestamp |-> 100, body |-> "b"] \in FileContents
  /\ last.event = "other"
  /\ \E ws \in Range(OpenClients) : sent[ws] = <<WelcomeMsg, DefaultState, lastState>>

\* The positions of a trace that are send attempts.
SendPositions(trace) == {i \in 1..Len(trace) : trace[i].op \in {"send", "send-throws"}}

\* C15: a poll that broadcasts attempts exactly one send to every socket that
\* is registered and OPEN when it starts and none to any other, every attempt
\* carries the file content itself, the held snapshot is assigned before the
\* first attempt, and the attempts follow the order of registration; the
\* sockets whose send does not throw get exactly that one message appended.
C15_BroadcastOncePerOpenSocket ==
  /\ [](\A content \in FileContents, failing \in SUBSET Range(OpenClients) :
          LET trace == pollStateFile(content, failing)
              sends == SendPositions(trace)
          IN trace # <<>> =>
               /\ \A ws \in Range(clients) :
                    Cardinality({i \in sends : trace[i].ws = ws})
                      = IF readyState[ws] = "OPEN" THEN 1 ELSE 0
               /\ \A i \in sends : trace[i].ws \in Range(clients) /\ trace[i].data = content
               /\ \E k \in 1..Len(trace) :
                    /\ trace[k].op = "set-lastState" /\ trace[k].data = content
                    /\ \A i \in sends : k < i
               /\ \A i, j \in sends : i < j => trace[i].ws < trace[j].ws)
  /\ [][ lastTimestamp' # lastTimestamp =>
          \A content \in FileContents, failing \in SUBSET Range(OpenClients) :
            (\/ lastState' # content
             \/ \E ws \in DOMAIN sent :
                  sent'[ws] # (IF readyState[ws] = "OPEN" /\ ws \notin failing
                               THEN Append(sent[ws], content) ELSE sent[ws]))
              => ~PollTick(content, failing) ]_vars

\* C15 witness: two open sockets have both received the welcome, the snapshot
\* held when they joined and the one payload broadcast since, which is held.
C15_Witness ==
  /\ Len(OpenClients) = 2
  /\ lastState # DefaultState
  /\ \A ws \in Range(OpenClients) : sent[ws] = <<WelcomeMsg, DefaultState, lastState>>

\* C16: when sends of a broadcast throw, the broadcast still attempts a send
\* to every open socket, those after the failing one included; the poll
\* completes (the snapshot and timestamp are the new ones, every socket whose
\* send did not throw has the payload), and no socket is closed or removed
\* from the registry or from the per-ip counts by the poll.
C16_SendFailureIsolated ==
  /\ [](\A content \in FileContents, failing \in SUBSET Range(OpenClients) :
          LET trace == pollStateFile(content, failing) IN
          (trace # <<>> /\ failing # {}) =>
            \A ws \in Range(OpenClients) :
              \E i \in 1..Len(trace) :
                /\ trace[i].ws = ws
                /\ trace[i].op = IF ws \in failing THEN "send-throws" ELSE "send")
  /\ [][ lastTimestamp' # lastTimestamp =>
          /\ clients' = clients /\ conn' = conn /\ readyState' = readyState
          /\ ipConnectionCounts' = ipConnectionCounts
          /\ \A content \in FileContents, failing \in SUBSET Range(OpenClients) :
               (/\ failing # {}
                /\ \/ lastState' # content
                   \/ lastTimestamp' # content.timestamp
                   \/ \E ws \in Range(OpenClients) \ failing :
                        sent'[ws] # Append(sent[ws], content)
                   \/ \E ws \in failing : sent'[ws] # sent[ws])
                 => ~PollTick(content, failing) ]_vars

\* C16 witness: of two open sockets that joined before the broadcast, the one
\* registered first missed the payload and the one registered after it has it;
\* both are still registered and open.
C16_Witness ==
  /\ Len(OpenClients) = 2
  /\ lastState # DefaultState
  /\ sent[OpenClients[1]] = <<WelcomeMsg, DefaultState>>
  /\ sent[OpenClients[2]] = <<WelcomeMsg, DefaultState, lastState>>

\* s is an initial part of t.
IsPrefix(s, t) == Len(s) <= Len(t) /\ SubSeq(t, 1, Len(s)) = s

\* C17: every registered socket has been sent the welcome first and exactly
\* once; a socket gets its first two messages, the welcome and then the
\* snapshot held at that moment, in the very step that registers it, and what
\* a socket was sent is only ever extended at the end.
C17_WelcomeThenSnapshot ==
  /\ [](/\ DOMAIN sent = Range(clients)
        /\ \A ws \in DOMAIN sent :
             /\ Len(sent[ws]) >= 2
             /\ sent[ws][1] = WelcomeMsg
             /\ \A i \in 2..Len(sent[ws]) : sent[ws][i] # WelcomeMsg)
  /\ [][ \A ws \in DOMAIN sent' :
          IF ws \in DOMAIN sent
          THEN IsPrefix(sent[ws], sent'[ws])
          ELSE /\ last'.event = "upgrade" /\ last'.reason = "ok"
               /\ ws \notin Range(clients) /\ ws \in Range(clients')
               /\ sent'[ws] = <<WelcomeMsg, lastState>>
               /\ lastState' = lastState ]_vars

\* C17 witness: a socket that joined after a broadcast got the welcome and then
\* the broadcast payload as its snapshot, next to a socket that joined before.
C17_Witness ==
  /\ last.event = "upgrade" /\ last.reason = "ok"
  /\ lastState # DefaultState
  /\ sent[nextConn] = <<WelcomeMsg, lastState>>
  /\ \E ws \in DOMAIN sent : sent[ws] = <<WelcomeMsg, DefaultState, lastState>>

\* C18 as stated: the heartbeat tick that finds a socket idle terminates it and
\* leaves it out of the registry, of the registry size and of its ip's count.
C18_Original ==
  [][ PingTick =>
        \A ws \in Range(clients) :
          IsIdle(conn[ws], now) =>
            /\ readyState'[ws] # "OPEN"
            /\ ws \notin Range(clients')
            /\ Len(clients') < Len(clients)
            /\ CountOf(ipConnectionCounts', conn[ws].ip)
                 < CountOf(ipConnectionCounts, conn[ws].ip) ]_vars

\* C19: under the fairness of SpecHeartbeat every registered socket, once it
\* no longer answers pings, is eventually terminated by the heartbeat and
\* eventually out of the registry; until then every broadcast sends to it as
\* to any open socket, whatever it was sent before.
C19_SilentSocketEvicted ==
  /\ \A ws \in 1..MaxJoins :
       /\ (ws \in Range(clients)) ~> (ws \in DOMAIN readyState /\ readyState[ws] = "CLOSING")
       /\ (ws \in Range(clients)) ~> (ws \notin Range(clients))
  /\ [][ lastTimestamp' # lastTimestamp =>
          \A ws \in Range(OpenClients) : sent'[ws] = Append(sent[ws], lastState') ]_vars

\* C19 witness: the only socket, which received a broadcast, was terminated by
\* the heartbeat and its close handler has removed it.
C19_Witness ==
  /\ nextConn = 1 /\ closes = 1 /\ clients = <<>>
  /\ lastState # DefaultState
  /\ now > config.idleTimeoutMs

\* C20 as stated: when the process exits, the poll, heartbeat and token-sweep
\* timers have been stopped and no registered socket is left open.
C20_Original ==
  last.event = "exit" =>
      /\ Timers = {}
      /\ \A ws \in Range(clients) : readyState[ws] # "OPEN"

\* C21: an inbound message from a client changes neither the registry, the
\* per-ip counts, any socket's lastPongAt, the held snapshot, the last
\* broadcast timestamp nor the token store, and nothing is sent to any socket.
C21_InboundMessageIgnored ==
  [][ last'.event = "message" =>
        /\ UNCHANGED <<clients, ipConnectionCounts, conn, readyState>>
        /\ UNCHANGED <<lastState, lastTimestamp, sessionTokens, sent>> ]_vars

\* C21 witness: a message arrived on an open socket while a token is stored
\* and the clock has moved past the socket's last pong.
C21_Witness ==
  /\ last.event = "message"
  /\ \E ws \in Range(OpenClients) : conn[ws].lastPongAt < now
  /\ DOMAIN sessionTokens # {}

\* The rejection reasons of token validation in the prescribed order, and when
\* each applies to a presented token value, request ip and request origin.
ReasonOrder == <<"missing", "invalid", "expired", "ip-mismatch", "origin-mismatch">>

ReasonApplies(reason, tok, ip, o) ==
  CASE reason = "missing" -> tok = NoToken
    [] reason = "invalid" -> tok \notin DOMAIN sessionTokens
    [] reason = "expired" ->
         tok \in DOMAIN sessionTokens /\ sessionTokens[tok].expiresAt <= now
    [] reason = "ip-mismatch" ->
         tok \in DOMAIN sessionTokens /\ sessionTokens[tok].ip # ip
    [] reason = "origin-mismatch" ->
         /\ tok \in DOMAIN sessionTokens
         /\ sessionTokens[tok].origin # ""
         /\ o \notin {Undefined, ""}
         /\ sessionTokens[tok].origin # o

FirstApplicable(tok, ip, o) ==
  LET hits == {i \in 1..Len(ReasonOrder) : ReasonApplies(ReasonOrder[i], tok, ip, o)} IN
  IF hits = {} THEN "ok"
  ELSE ReasonOrder[CHOOSE i \in hits : \A j \in hits : i <= j]

\* C22: token validation reports the first reason that applies in the order
\* missing, invalid, expired, ip-mismatch, origin-mismatch; a handshake rejected
\* as missing or invalid leaves the token store unchanged, and one rejected as
\* expired, ip-mismatch or origin-mismatch removes exactly the presented entry.
C22_ValidationOrder ==
  /\ [](\A tok \in RequestUrls \ {BadUrl}, ip \in Ips, o \in OriginHeaders :
          ValidateToken(tok, ip, o) = FirstApplicable(tok, ip, o))
  /\ [][ last'.event = "upgrade" =>
           /\ last'.reason \in {"missing", "invalid"} =>
                (sessionTokens' = sessionTokens)
           /\ last'.reason \in {"expired", "ip-mismatch", "origin-mismatch"} =>
                (\A ip \in Ips, o \in OriginHeaders, url \in RequestUrls \ {BadUrl} :
                   (\/ last'.reason # FirstApplicable(url, ip, o)
                    \/ url \notin DOMAIN sessionTokens
                    \/ sessionTokens' # MapDelete(sessionTokens, url))
                     => ~Upgrade(ip, o, url)) ]_vars

\* C22 witness: the one issued token, bound to 10.0.0.1 and to the viewer
\* origin, was presented at its expiry instant and rejected as expired, which
\* removed it from the store.
C22_Witness ==
  /\ last.event = "upgrade" /\ last.reason = "expired"
  /\ nextToken = 1 /\ issued[1].ip = "10.0.0.1" /\ issued[1].origin = ViewerOrigin
  /\ now = issued[1].expiresAt
  /\ sessionTokens = EmptyMap

\* Both the origin bound to the session and the request's origin are non-empty
\* and they differ.
BoundOriginDiffers(session, o) ==
  /\ session.origin # ""
  /\ o # Undefined /\ o # ""
  /\ session.origin # o

\* C23: the origin binding is checked only when the token's bound origin and
\* the request's origin are both non-empty: a token bound to no origin passes
\* the origin check for every request origin, a token bound to an origin passes
\* it for a request without origin, and a handshake is rejected as
\* origin-mismatch exactly when both are non-empty and differ.
C23_OriginBinding ==
  /\ [](\A t \in DOMAIN sessionTokens, o \in OriginHeaders :
          OriginMismatch(sessionTokens[t], o) <=> BoundOriginDiffers(sessionTokens[t], o))
  /\ [][ (last'.event = "upgrade" /\ last'.reason \in {"ok", "origin-mismatch"}) =>
           \A url \in DOMAIN sessionTokens, ip \in Ips, o \in OriginHeaders :
             ((last'.reason = "origin-mismatch") # BoundOriginDiffers(sessionTokens[url], o))
               => ~Upgrade(ip, o, url) ]_vars

\* C23 witness: under a non-empty allow-list a handshake (which must carry an
\* allowed origin) was admitted with a token that is bound to no origin.
C23_Witness ==
  /\ last.event = "upgrade" /\ last.reason = "ok"
  /\ config.allowedOrigins # <<>>
  /\ \A t \in DOMAIN sessionTokens : sessionTokens[t].origin = ""
  /\ DOMAIN sessionTokens # {}

\* C24: a stored token leaves the store only when it is expired and the step
\* is a sweep (also the one a token issue runs) or a validation that finds it
\* expired, or when it is the token a handshake presented and the validation
\* found an ip or origin mismatch; the entries that stay are unchanged, and a
\* handshake rejected for origin, capacity, bad URL, or a missing or unknown
\* token leaves the store as it was.
C24_TokenRemovalCauses ==
  [][ /\ \A t \in DOMAIN sessionTokens :
           IF t \in DOMAIN sessionTokens'
           THEN sessionTokens'[t] = sessionTokens[t]
           ELSE \/ /\ sessionTokens[t].expiresAt <= now
                   /\ \/ last'.event \in {"sweep", "token-request"}
                      \/ last'.event = "upgrade" /\ last'.reason = "expired"
                \/ /\ last'.event = "upgrade"
                   /\ last'.reason \in {"ip-mismatch", "origin-mismatch"}
                   /\ sessionTokens' = MapDelete(sessionTokens, t)
                   /\ \E ip \in Ips, o \in OriginHeaders : Upgrade(ip, o, t)
      /\ (last'.event = "upgrade" /\ last'.reason \in EarlyReasons \cup {"missing", "invalid"})
           => (sessionTokens' = sessionTokens) ]_vars

\* C24 witness: a handshake was rejected for per-ip capacity after the clock
\* advanced, and the stored token is still there.
C24_Witness ==
  /\ last.event = "upgrade" /\ last.reason = "capacity-per-ip"
  /\ now > 0
  /\ DOMAIN sessionTokens = IssuedTokens /\ nextToken > 0

\* C25 as stated: an admitted token request succeeds, and every entry that
\* was in the store before the issue is still there, unchanged, afterwards.
C25_Original ==
  [][ last'.event = "token-request" =>
        /\ \A ip \in Ips, o \in OriginHeaders, h \in HostHeaders :
             (isSessionRequestAllowed(h, o) /\ last'.status # 200) => ~TokenRequest(ip, o, h)
        /\ last'.status = 200 =>
             (/\ DOMAIN sessionTokens' = DOMAIN sessionTokens \cup {last'.body.token}
              /\ \A t \in DOMAIN sessionTokens : sessionTokens'[t] = sessionTokens[t]) ]_vars

\* C25: an admitted token request succeeds; it inserts the one new entry and
\* removes the entries that had already expired (expiresAt <= now); every
\* unexpired entry that was in the store before is still there, unchanged.
C25_IssueInsertsAndSweeps ==
  [][ last'.event = "token-request" =>
        /\ \A ip \in Ips, o \in OriginHeaders, h \in HostHeaders :
             (isSessionRequestAllowed(h, o) /\ last'.status # 200) => ~TokenRequest(ip, o, h)
        /\ last'.status = 200 =>
             (/\ last'.body.token \notin DOMAIN sessionTokens
              /\ DOMAIN sessionTokens' =
                   {t \in DOMAIN sessionTokens : sessionTokens[t].expiresAt > now}
                     \cup {last'.body.token}
              /\ \A t \in DOMAIN sessionTokens' \cap DOMAIN sessionTokens :
                   sessionTokens'[t] = sessionTokens[t])
        /\ last'.status # 200 => (sessionTokens' = sessionTokens) ]_vars

\* C25 witness: the second token was issued when the first had expired and had
\* not been swept or presented; the issue removed the first.
C25_Witness ==
  /\ last.event = "token-request" /\ last.status = 200
  /\ nextToken = 2 /\ issued[1].expiresAt <= now
  /\ DOMAIN sessionTokens = {2}

\* C26: a sweep removes exactly the entries with expiresAt <= now and leaves
\* every entry with expiresAt > now unchanged; the sweep is due at every
\* multiple of min(60000 ms, prescribed TTL) and runs only then.
C26_SweepExactAndPeriodic ==
  /\ [](SweepDue <=> (now > 0 /\ now % Min(60000, PrescribedTtl) = 0))
  /\ [][ last'.event = "sweep" =>
           /\ now > 0 /\ now % Min(60000, PrescribedTtl) = 0
           /\ DOMAIN sessionTokens' =
                {t \in DOMAIN sessionTokens : sessionTokens[t].expiresAt > now}
           /\ \A t \in DOMAIN sessionTokens' : sessionTokens'[t] = sessionTokens[t] ]_vars

\* C26 witness: a sweep ran with one expired and one unexpired entry in the
\* store and left the unexpired one.
C26_Witness ==
  /\ last.event = "sweep"
  /\ nextToken = 2 /\ issued[1].expiresAt <= now /\ issued[2].expiresAt > now
  /\ DOMAIN sessionTokens = {2}

\* The allow-list entries that parse as URLs.
WellFormedEntries == {e \in Range(config.allowedOrigins) : CanParse(e)}

\* The origin the allow-list rule admits.
OriginAdmitted(o) ==
  \/ config.allowedOrigins = <<>>
  \/ o # Undefined /\ \E i \in 1..Len(config.allowedOrigins) : config.allowedOrigins[i] = o
  \/ /\ config.allowSameHostDifferentPort
     /\ o # Undefined /\ CanParse(o)
     /\ \E e \in WellFormedEntries :
          /\ ParseURL(e).protocol = ParseURL(o).protocol
          /\ ParseURL(e).hostname = ParseURL(o).hostname

\* C27: isOriginAllowed(origin) is true when the allow-list is empty, else when
\* origin is an element of the list verbatim, else, only with
\* allowSameHostDifferentPort, when origin's scheme and hostname equal those of
\* a well-formed entry; otherwise false.  Malformed entries are skipped: the
\* evaluation yields a boolean for every origin and every list, and the
\* handshake answers 403 exactly for the origins the rule does not admit.
C27_OriginAllowList ==
  /\ [](\A o \in AllOriginHeaders :
          /\ isOriginAllowed(o) \in BOOLEAN
          /\ isOriginAllowed(o) <=> OriginAdmitted(o))
  /\ [][ last'.event = "upgrade" =>
           \A ip \in TokenRequestIps, o \in AllOriginHeaders, url \in RequestUrls :
             ((last'.status = 403) = OriginAdmitted(o)) => ~Upgrade(ip, o, url) ]_vars

\* C27 witness: with the list <<malformed entry, viewer origin>> and
\* allowSameHostDifferentPort set, a handshake was admitted with a token that
\* was issued to the viewer origin on another port.
C27_Witness ==
  /\ config.allowedOrigins = <<MalformedOrigin, ViewerOrigin>>
  /\ config.allowSameHostDifferentPort
  /\ last.event = "upgrade" /\ last.reason = "ok"
  /\ \E t \in DOMAIN sessionTokens : sessionTokens[t].origin = ViewerOtherPort

\* The hostname of a Host header value, port suffix dropped.
HostnameOf(h) ==
  CASE h = "viewer.example.com:443" -> "viewer.example.com"
    [] h = "viewer.example.com" -> "viewer.example.com"
    [] h = "evil.example.com" -> "evil.example.com"
    [] OTHER -> Undefined

\* The Host header the allow-list rule admits: its hostname is the hostname of
\* a well-formed entry, whatever the entry's scheme and port.
HostAdmitted(h) ==
  \/ config.allowedOrigins = <<>>
  \/ /\ HostnameOf(h) # Undefined
     /\ \E e \in WellFormedEntries : ParseURL(e).hostname = HostnameOf(h)

\* C28: for every Origin and Host header the token-request check returns
\* isOriginAllowed(origin) when an origin is present and isHostAllowed(host)
\* when it is absent; the Host header makes no difference to a request that
\* carries an Origin; isHostAllowed compares the Host header's hostname, port
\* dropped, with the hostnames of the allow-listed origins; the token endpoint
\* answers 200 or 403 accordingly.
C28_TokenRequestCheck ==
  /\ [](\A o \in AllOriginHeaders, h \in AllHostHeaders :
          /\ isSessionRequestAllowed(h, o) =
               (IF o # Undefined THEN isOriginAllowed(o) ELSE isHostAllowed(h))
          /\ o # Undefined =>
               (\A h2 \in AllHostHeaders :
                  isSessionRequestAllowed(h2, o) = isSessionRequestAllowed(h, o))
          /\ isHostAllowed(h) <=> HostAdmitted(h))
  /\ [][ last'.event = "token-request" =>
           \A ip \in TokenRequestIps, o \in AllOriginHeaders, h \in AllHostHeaders :
             ((last'.status = 200) #
                (IF o # Undefined THEN OriginAdmitted(o) ELSE HostAdmitted(h)))
               => ~TokenRequest(ip, o, h) ]_vars

\* C28 witness: under a non-empty allow-list a token was issued to a request
\* without Origin header, admitted by its Host header.
C28_Witness ==
  /\ config.allowedOrigins # <<>>
  /\ last.event = "token-request" /\ last.status = 200
  /\ sessionTokens[last.body.token].origin = ""

\* C29 as stated: the held snapshot is replaced and broadcast only when the
\* payload's timestamp has advanced beyond the last broadcast timestamp, so
\* the last broadcast timestamp never decreases.
C29_Original ==
  [][ (lastTimestamp' # lastTimestamp \/ lastState' # lastState) =>
        lastTimestamp' > lastTimestamp ]_vars

\* C29: the poller replaces the held snapshot and broadcasts exactly when the
\* valid payload's timestamp differs from the last broadcast timestamp, also
\* when it is older; two consecutive broadcasts carry different timestamps.
C29_ChangeOnDifferentTimestamp ==
  /\ [](\A content \in PollFileContents, failing \in SUBSET Range(clients) :
          content.kind = "valid" =>
            (pollStateFile(content, failing) # <<>> <=> content.timestamp # lastTimestamp))
  /\ [][ /\ (lastTimestamp' # lastTimestamp \/ lastState' # lastState) =>
              (/\ lastTimestamp' # lastTimestamp
               /\ lastState'.timestamp = lastTimestamp')
         /\ \A content \in PollFileContents :
              (/\ content.kind = "valid"
               /\ content.timestamp # lastTimestamp
               /\ \/ lastState' # content
                  \/ lastTimestamp' # content.timestamp
                  \/ \E ws \in Range(OpenClients) : sent'[ws] # Append(sent[ws], content))
                => ~PollTick(content, {}) ]_vars

\* C29 witness: after the payload with timestamp 100 was broadcast, the state
\* file held a payload with timestamp 0, which was broadcast to an open socket
\* and is now held.
C29_Witness ==
  /\ lastTimestamp = 0
  /\ lastState = [kind |-> "valid", timestamp |-> 0, body |-> "a"]
  /\ \E ws \in Range(OpenClients) :
       sent[ws] = <<WelcomeMsg, [kind |-> "valid", timestamp |-> 100, body |-> "a"], lastState>>

\* C30: a poll whose state file is missing, unreadable, not parseable or of
\* the wrong shape executes no statement: the held snapshot and lastTimestamp
\* stay as they are and nothing is sent to any socket; the next poll that
\* reads a valid payload with another timestamp broadcasts it.
C30_InvalidFileSkipped ==
  /\ [](\A content \in PollFileContents, failing \in SUBSET Range(clients) :
          content.kind # "valid" => pollStateFile(content, failing) = <<>>)
  /\ [][ (last'.event = "poll" /\ last'.reason = "invalid") =>
           /\ UNCHANGED <<lastState, lastTimestamp, sent>>
           /\ \E content \in PollFileContents : (pollStateFile(content, {}) # <<>>)' ]_vars

\* C30 witness: after a broadcast reached an open socket, a poll read an
\* invalid state file.
C30_Witness ==
  /\ last.event = "poll" /\ last.reason = "invalid"
  /\ lastTimestamp = 100
  /\ \E ws \in Range(OpenClients) : sent[ws] = <<WelcomeMsg, DefaultState, lastState>>

\* C31: a join whose welcome or snapshot send fails is not aborted: the socket
\* stays registered, its listeners are attached and the server keeps running,
\* so that the socket's close unregisters it.
C31_Original ==
  [][ (last'.event = "exit" /\ last'.reason = "uncaught") =>
        /\ nextConn' \in Range(clients')
        /\ nextConn' \in listening'
        /\ Running' ]_vars

\* C32: the state message sent at join is the held snapshot at that moment;
\* the held snapshot is the default snapshot at startup and is replaced only
\* by the payload of an accepted poller update, so it is always well formed.
C32_JoinSendsHeldSnapshot ==
  /\ [](/\ isValidBroadcastPayload(lastState)
        /\ last.event = "start" => lastState = DefaultState)
  /\ [][ lastState' # lastState =>
           \E content \in PollFileContents :
              /\ pollStateFile(content, {}) # <<>>
              /\ lastState' = content ]_vars
  /\ [][ (last'.event = "upgrade" /\ last'.reason = "ok") =>
           /\ lastState' = lastState
           /\ sent'[nextConn'] = <<WelcomeMsg, lastState>> ]_vars

C32_Witness ==
  /\ last.event = "upgrade" /\ last.reason = "ok"
  /\ lastState # DefaultState
  /\ sent[nextConn] = <<WelcomeMsg, lastState>>

\* C33: one heartbeat tick calls terminate, and no ping, on every registered
\* socket with now - lastPongAt > idleTimeoutMs, and exactly one ping on every
\* other registered OPEN socket; the tick changes no lastPongAt; lastPongAt is
\* set to now only at join and by a pong of a registered socket.
C33_HeartbeatTick ==
  /\ [](\A ws \in Range(clients) :
          LET calls == {i \in DOMAIN pingClients : pingClients[i].ws = ws}
              late  == now - conn[ws].lastPongAt > config.idleTimeoutMs
          IN /\ Cardinality(calls) = 1
             /\ late => \A i \in calls : pingClients[i].op = "terminate"
             /\ (~late /\ readyState[ws] = "OPEN") =>
                   \A i \in calls : pingClients[i].op = "ping"
             /\ (~late /\ readyState[ws] # "OPEN") =>
                   \A i \in calls : pingClients[i].op = "skip")
  /\ [][ last'.event = "ping" =>
           /\ conn' = conn
           /\ \A ws \in Range(clients) :
                readyState'[ws] =
                  IF now - conn[ws].lastPongAt > config.idleTimeoutMs
                  THEN "CLOSING" ELSE readyState[ws] ]_vars
  /\ [][ \A ws \in DOMAIN conn' :
           (ws \notin DOMAIN conn \/ conn'[ws].lastPongAt # conn[ws].lastPongAt) =>
             /\ conn'[ws].lastPongAt = now'
             /\ \/ ws \notin DOMAIN conn /\ last'.event = "upgrade" /\ last'.reason = "ok"
                \/ ws \in Range(clients) /\ OnPong(ws) ]_vars

\* C33 witness: the tick has terminated a socket that had answered an earlier
\* probe and then fell silent.
C33_Witness ==
  /\ last.event = "ping"
  /\ \E ws \in Range(clients) :
       /\ readyState[ws] = "CLOSING"
       /\ conn[ws].lastPongAt > conn[ws].connectedAt
       /\ now - conn[ws].lastPongAt > config.idleTimeoutMs

\* C34 as stated: the heartbeat never terminates a socket that has answered
\* every probe before the next tick, whatever idleTimeoutMs is.  At a tick, an
\* OPEN socket whose last join or pong is later than the previous tick
\* (now - lastPongAt < PingIntervalMs) has answered every probe sent to it.
C34_Original ==
  [][ last'.event = "ping" =>
        \A ws \in Range(clients) :
          (readyState[ws] = "OPEN" /\ now - conn[ws].lastPongAt < PingIntervalMs) =>
            readyState'[ws] = "OPEN" ]_vars

C36_Original ==
  [][ \A content \in PollFileContents :
        (/\ lastState = DefaultState
         /\ isValidBroadcastPayload(content)
         /\ PollTick(content, {})) =>
           /\ lastState' = content
           /\ \A ws \in Range(OpenClients) : sent'[ws] = Append(sent[ws], content) ]_vars

\* C37 as stated: an upgrade request whose Origin and Host headers the token
\* request check admits is not rejected 403.
C37_Original ==
  [][ (last'.event = "upgrade" /\ last'.status = 403) =>
        \A ip \in TokenRequestIps, o \in AllOriginHeaders, h \in AllHostHeaders,
           url \in RequestUrls :
          isSessionRequestAllowed(h, o) => ~Upgrade(ip, o, url) ]_vars

\* C37: headers the token request check admits are admitted by the upgrade's
\* origin check when they carry an Origin header or the allow-list is empty;
\* under a non-empty allow-list an upgrade without Origin header is rejected
\* 403 whatever its Host header, also when the token request check admits
\* the same headers through the Host fallback.
C37_UpgradeOriginCheck ==
  /\ [](\A o \in AllOriginHeaders, h \in AllHostHeaders :
          /\ (isSessionRequestAllowed(h, o)
                /\ (Truthy(o) \/ config.allowedOrigins = <<>>)) => isOriginAllowed(o)
          /\ (~Truthy(o) /\ config.allowedOrigins # <<>>) => ~isOriginAllowed(o))
  /\ [][ last'.event = "upgrade" =>
           \A ip \in TokenRequestIps, o \in AllOriginHeaders, url \in RequestUrls :
             ((last'.status = 403) #
                (/\ config.allowedOrigins # <<>>
                 /\ \/ ~Truthy(o)
                    \/ \A h \in AllHostHeaders : ~isSessionRequestAllowed(h, o)))
               => ~Upgrade(ip, o, url) ]_vars

\* C37 witness: under a non-empty allow-list a token was issued to a request
\* without Origin header, and an upgrade has been rejected 403.
C37_Witness ==
  /\ config.allowedOrigins # <<>>
  /\ \E t \in DOMAIN sessionTokens : sessionTokens[t].origin = ""
  /\ last.event = "upgrade" /\ last.status = 403

\* C38 as stated: after connect() was invoked while a socket of the hook was
\* open, the close handler of that old socket does not clear a reference to
\* another socket, and the reconnect it schedules does not close an open socket.
C38_Original ==
  [][ /\ \A ws \in superseded.sockets \cap DOMAIN sockets :
           (wsRef \notin {0, ws} /\ wsRef' # wsRef) => ~SocketCloseEvent(ws)
      /\ \A t \in superseded.timers \cap timers, blocked \in BOOLEAN :
           (\E ws \in DOMAIN sockets : sockets[ws] = "OPEN" /\ sockets'[ws] # "OPEN")
             => ~ReconnectTimerFires(t, blocked) ]_vars

\* C39 as stated: once the cleanup has run on unmount, no reconnect timer is
\* pending, no session-token request is made and no WebSocket is created.
C39_Original ==
  /\ [](~mounted => timers = {})
  /\ [][ ~mounted => (created'.fetch = created.fetch /\ created'.socket = created.socket) ]_vars

====
